---------------------------- MODULE Spec2Model ----------------------------
(***************************************************************************)
(* A model of the Cloud PDF Editor: the overlay-to-PDF coordinate          *)
(* transform (src/src/pdfService.js), the page property projector, the     *)
(* export pipeline, page reordering, session restore, document loading     *)
(* and the pointer gestures of the overlay (src/src/app.js).               *)
(*                                                                         *)
(* Numbers that the code divides are kept as exact fractions [n, d]; the   *)
(* rounding of IEEE doubles is not modelled.                               *)
(***************************************************************************)
EXTENDS Integers, Sequences, FiniteSets, TLC

VARIABLES
    xf,         \* harness of the pure functions of pdfService.js: the arguments
                \* of a call and its result
    origin,     \* history: the document that was open when an id was created
    state,      \* the `state` object of app.js
    heap,       \* the byte buffers (ArrayBuffer / Uint8Array) that are alive
    closure,    \* variables of initApp's closure: activeDraw, activeHighlight,
                \* activeShape, the window listeners of gestures, pendingSession
    loadTask,   \* the run of the loadInput change handler that is in flight
    reorderTask, \* the run of the Apply Reorder handler that is in flight
    exportTask, \* the run of the Export handler that is in flight
    resumeTask, \* the run of the resumeInput change handler that is in flight
    ui          \* what the user is shown: the status line

vars == <<xf, origin, state, heap, closure, loadTask, reorderTask, exportTask,
          resumeTask, ui>>

appVars == <<origin, state, heap, closure, loadTask, reorderTask, exportTask,
             resumeTask, ui>>

(***************************************************************************)
(* Exact fractions.                                                        *)
(***************************************************************************)
RECURSIVE Gcd(_, _)
Gcd(a, b) == IF b = 0 THEN a ELSE Gcd(b, a % b)

Abs(a) == IF a < 0 THEN -a ELSE a

\* the fraction n / d in lowest terms; a zero denominator is kept as it is
QNorm(n, d) ==
    IF d = 0 THEN [n |-> n, d |-> 0]
    ELSE LET g == Gcd(Abs(n), Abs(d))
             s == IF d < 0 THEN -1 ELSE 1
         IN  [n |-> s * (n \div g), d |-> s * (d \div g)]

\* a / b as JavaScript's division of two numbers, kept exact
QDiv(a, b) == QNorm(a, b)

\* k * q for a number k and a fraction q
QMul(k, q) == QNorm(k * q.n, q.d)

\* k - q for a number k and a fraction q
QSubFrom(k, q) == QNorm(k * q.d - q.n, q.d)

\* p + q
QAdd(p, q) == QNorm(p.n * q.d + q.n * p.d, p.d * q.d)

\* p and q denote the same finite number
QEq(p, q) == p.d # 0 /\ q.d # 0 /\ p.n * q.d = q.n * p.d

\* the fraction q is the integer k
QIs(q, k) == QEq(q, [n |-> k, d |-> 1])

(***************************************************************************)
(* Coordinate transform (pdfService.js).                                   *)
(***************************************************************************)
\* a transform that forgets the rectangle's height when it flips the y axis
convertOverlayRectNoHeight(overlayRect, pageSize, overlaySize) ==
    LET scaleX == QDiv(pageSize.width, overlaySize.width)
        scaleY == QDiv(pageSize.height, overlaySize.height)
    IN  [x      |-> QMul(overlayRect.x, scaleX),
         y      |-> QSubFrom(pageSize.height, QMul(overlayRect.y, scaleY)),
         width  |-> QMul(overlayRect.width, scaleX),
         height |-> QMul(overlayRect.height, scaleY)]

\* a transform that scales by overlay / page instead of page / overlay
convertOverlayRectInverseScale(overlayRect, pageSize, overlaySize) ==
    LET scaleX == QDiv(overlaySize.width, pageSize.width)
        scaleY == QDiv(overlaySize.height, pageSize.height)
    IN  [x      |-> QMul(overlayRect.x, scaleX),
         y      |-> QSubFrom(pageSize.height,
                             QMul(overlayRect.y + overlayRect.height, scaleY)),
         width  |-> QMul(overlayRect.width, scaleX),
         height |-> QMul(overlayRect.height, scaleY)]

convertOverlayRectToPdfRect(overlayRect, pageSize, overlaySize) ==
    LET scaleX == QDiv(pageSize.width, overlaySize.width)
        scaleY == QDiv(pageSize.height, overlaySize.height)
    IN  [x      |-> QMul(overlayRect.x, scaleX),
         y      |-> QSubFrom(pageSize.height,
                             QMul(overlayRect.y + overlayRect.height, scaleY)),
         width  |-> QMul(overlayRect.width, scaleX),
         height |-> QMul(overlayRect.height, scaleY)]

\* the point transform; the point is the corner (x, y) of the rectangle drawn
convertOverlayPointToPdfPoint(point, pageSize, overlaySize) ==
    LET scaleX == QDiv(pageSize.width, overlaySize.width)
        scaleY == QDiv(pageSize.height, overlaySize.height)
    IN  [x |-> QMul(point.x, scaleX),
         y |-> QSubFrom(pageSize.height, QMul(point.y, scaleY))]

\* the arguments the harness draws
XfRects ==
    [x : {0, 60}, y : {0, 80}, width : {50, 120}, height : {60, 160}]

XfSizes == {[width |-> 300, height |-> 400], [width |-> 600, height |-> 800]}

\* the overlay size of an annotation made before the overlay was measured
XfUnmeasured == [width |-> 0, height |-> 0]

NoRect == [x |-> QDiv(0, 1), y |-> QDiv(0, 1),
           width |-> QDiv(0, 1), height |-> QDiv(0, 1)]

NoPoint == [x |-> QDiv(0, 1), y |-> QDiv(0, 1)]

XfInit ==
    xf \in [pc : {"args"}, overlayRect : XfRects, pageSize : XfSizes,
            overlaySize : XfSizes \cup {XfUnmeasured}, rect : {NoRect},
            point : {NoPoint}]

\* one call of convertOverlayRectToPdfRect on the drawn arguments
ConvertRect ==
    /\ xf.pc = "args"
    /\ xf' = [xf EXCEPT
                !.pc = "rect",
                !.rect = convertOverlayRectToPdfRect(xf.overlayRect, xf.pageSize,
                                                     xf.overlaySize)]
    /\ UNCHANGED appVars

\* one call of convertOverlayPointToPdfPoint on the corner of the drawn
\* rectangle; a call that threw would end in pc = "error"
ConvertPoint ==
    /\ xf.pc = "args"
    /\ xf' = [xf EXCEPT
                !.pc = "point",
                !.point = convertOverlayPointToPdfPoint(
                              [x |-> xf.overlayRect.x, y |-> xf.overlayRect.y],
                              xf.pageSize, xf.overlaySize)]
    /\ UNCHANGED appVars

(***************************************************************************)
(* The application state (app.js).                                         *)
(***************************************************************************)
\* byte buffers alive at one time
MaxBufs == 9

\* annotation ids in use at one time
MaxIds == 2

\* image assets in use at one time
MaxAssets == 2

\* entries of a page order handed to reorderPdf alone
MaxOrder == 3

\* renders in flight at one time
MaxRenders == 2

\* points clicked into one polygon or cloud draft
MaxClicks == 3

\* duplicates queued for one page
MaxDuplicates == 1

\* points kept in one freehand path
MaxPoints == 3

\* pointer gestures whose window listeners are registered at one time
MaxListeners == 2

\* image annotations handed to applyImageAnnotations alone
MaxImages == 2

\* characters typed in the "Pages" field of the split pane
MaxChars == 4

BufIds == 1 .. MaxBufs
AnnIds == 1 .. MaxIds

\* the documents the user can pick; a content is the page list of the PDF
\* and the marks the export stages have drawn on it
Content(pages) == [pdf |-> TRUE, pages |-> pages, marks |-> <<>>]

NoBytes == [pdf |-> FALSE, pages |-> <<>>, marks |-> <<"free">>]

FileA == [name |-> "a.pdf", bytes |-> Content(<<"A1", "A2", "A3">>)]

FileB == [name |-> "b.pdf", bytes |-> Content(<<"B1", "B2">>)]

NoFile == [name |-> "", bytes |-> NoBytes]

\* bytes that do not begin with the PDF header
NotPdf == [pdf |-> FALSE, pages |-> <<>>, marks |-> <<"text">>]

\* a file named as a PDF that holds something else, and a text file
FileC == [name |-> "c.pdf", bytes |-> NotPdf]

FileT == [name |-> "notes.txt", bytes |-> NotPdf]

\* isPdfFile: the name ends in .pdf (the type of a file is taken to agree
\* with its name)
isPdfFile(file) == file.name \in {"a.pdf", "b.pdf", "c.pdf"}

\* the images the user can pick in the asset input, with the size the
\* browser finds them to have
ImageP == [name |-> "p.png", bytes |-> "P", width |-> 200, height |-> 100]

ImageJ == [name |-> "j.jpg", bytes |-> "J", width |-> 600, height |-> 300]

\* a narrow and tall image, such as the capture of a whole web page
ImageT == [name |-> "t.png", bytes |-> "T", width |-> 100, height |-> 2000]

AssetIds == 1 .. MaxAssets

PageIds == 1 .. 3

\* the size getOverlayBounds measures once a page is rendered, and before
OverlayReady == [width |-> 720, height |-> 960]

OverlayUnmeasured == [width |-> 0, height |-> 0]

Collections ==
    {"imageAnnotations", "textAnnotations", "drawAnnotations",
     "highlightAnnotations", "shapeAnnotations", "signatureAnnotations",
     "commentAnnotations", "stampAnnotations"}

EmptyPageProperties ==
    [rotations  |-> [p \in PageIds |-> 0],
     hidden     |-> {},
     deleted    |-> {},
     duplicates |-> [p \in PageIds |-> 0]]

DefaultShapeType == "rect"

\* state.textDefaults as the state literal and loadPdfBytes have it, the
\* font family left out
DefaultTextStyle ==
    [bold |-> FALSE, italic |-> FALSE, underline |-> FALSE, fontSize |-> 12,
     color |-> "#111111"]

\* a span of a text annotation: a text in one style
Span(text, style) ==
    [text |-> text, bold |-> style.bold, italic |-> style.italic,
     underline |-> style.underline, fontSize |-> style.fontSize,
     color |-> style.color]

\* the `state` literal of app.js
InitialState ==
    [originalBytes         |-> 0,
     currentBytes          |-> 0,
     pdfDoc                |-> <<>>,
     pageCount             |-> 0,
     currentPage           |-> 1,
     pageOrder             |-> <<>>,
     imageAssets           |-> <<>>,
     imageAnnotations      |-> <<>>,
     textAnnotations       |-> <<>>,
     drawAnnotations       |-> <<>>,
     highlightAnnotations  |-> <<>>,
     shapeAnnotations      |-> <<>>,
     signatureAnnotations  |-> <<>>,
     commentAnnotations    |-> <<>>,
     stampAnnotations      |-> <<>>,
     activeTool            |-> "select",
     selectedTextId        |-> 0,
     selectedStampId       |-> 0,
     shapeDraft            |-> <<>>,
     shapeType             |-> DefaultShapeType,
     pageProperties        |-> EmptyPageProperties,
     commentsVisible       |-> TRUE,
     sessionEntries        |-> <<>>,
     sessionHistoryEnabled |-> TRUE,
     currentFileName       |-> "",
     currentFileHash       |-> <<>>,
     signatureProfile      |-> <<>>,
     signaturePlacementMode |-> "full",
     textDefaults          |-> DefaultTextStyle]

Range(s) == {s[i] : i \in 1 .. Len(s)}

clamp(value, min, max) ==
    LET lower == IF value > min THEN value ELSE min
    IN  IF lower < max THEN lower ELSE max

(***************************************************************************)
(* Byte buffers.  A buffer is written once, when it is allocated; a buffer *)
(* nothing refers to any more is given back.                               *)
(***************************************************************************)
FreeBufs(h) == {b \in BufIds : h[b] = NoBytes}

NewBuf(h) == CHOOSE b \in FreeBufs(h) : \A c \in FreeBufs(h) : b <= c

Store(h, b, content) == [h EXCEPT ![b] = content]

LiveBufs(st, lt, rt, et, rs) ==
    {st.originalBytes, st.currentBytes, lt.bytes, lt.workingBytes,
     rt.bytes, rt.workingBytes, et.inputBytes, et.exportBytes,
     rs.bytes, rs.workingBytes} \ {0}

Collect(h, live) == [b \in BufIds |-> IF b \in live THEN h[b] ELSE NoBytes]

\* hashBytes: a digest of the bytes, taken to be free of collisions
hashBytes(content) == <<content.pages, content.marks>>

isPdfBytes(content) == content.pdf

(***************************************************************************)
(* Page Property Projector.                                                *)
(***************************************************************************)
isPageHidden(st, pageNumber) == pageNumber \in st.pageProperties.hidden

isPageDeleted(st, pageNumber) == pageNumber \in st.pageProperties.deleted

RECURSIVE VisibleFrom(_, _)
VisibleFrom(st, page) ==
    IF page > st.pageCount THEN <<>>
    ELSE IF isPageHidden(st, page) \/ isPageDeleted(st, page)
         THEN VisibleFrom(st, page + 1)
         ELSE <<page>> \o VisibleFrom(st, page + 1)

getVisiblePages(st) == VisibleFrom(st, 1)

RECURSIVE Repeat(_, _)
Repeat(page, count) ==
    IF count <= 0 THEN <<>> ELSE <<page>> \o Repeat(page, count - 1)

\* a loop body that drops the queued duplicates
ExportOrderOfPageOnce(st, page) ==
    IF isPageHidden(st, page) \/ isPageDeleted(st, page)
    THEN <<>>
    ELSE <<page>>

\* the body of buildExportPageOrder's loop for one page
ExportOrderOfPage(st, page) ==
    IF isPageHidden(st, page) \/ isPageDeleted(st, page)
    THEN <<>>
    ELSE <<page>> \o Repeat(page, st.pageProperties.duplicates[page])

RECURSIVE ExportOrderFrom(_, _)
ExportOrderFrom(st, page) ==
    IF page > st.pageCount THEN <<>>
    ELSE ExportOrderOfPage(st, page) \o ExportOrderFrom(st, page + 1)

buildExportPageOrder(st) == ExportOrderFrom(st, 1)

\* indexMap of remapAnnotationsForExport: the 1-based positions of a page
RECURSIVE TargetsFrom(_, _, _)
TargetsFrom(exportPageOrder, pageNumber, index) ==
    IF index > Len(exportPageOrder) THEN <<>>
    ELSE (IF exportPageOrder[index] = pageNumber THEN <<index>> ELSE <<>>)
             \o TargetsFrom(exportPageOrder, pageNumber, index + 1)

\* an index map that keeps only the first position of a page
indexMapFirstOnly(exportPageOrder, pageNumber) ==
    LET all == TargetsFrom(exportPageOrder, pageNumber, 1)
    IN  IF all = <<>> THEN <<>> ELSE <<all[1]>>

indexMap(exportPageOrder, pageNumber) ==
    TargetsFrom(exportPageOrder, pageNumber, 1)

RECURSIVE CopiesTo(_, _, _)
CopiesTo(annotation, targets, k) ==
    IF k > Len(targets) THEN <<>>
    ELSE <<[annotation EXCEPT !.pageNumber = targets[k]]>>
             \o CopiesTo(annotation, targets, k + 1)

RECURSIVE RemapFrom(_, _, _)
RemapFrom(annotations, exportPageOrder, i) ==
    IF i > Len(annotations) THEN <<>>
    ELSE CopiesTo(annotations[i],
                  indexMap(exportPageOrder, annotations[i].pageNumber), 1)
             \o RemapFrom(annotations, exportPageOrder, i + 1)

remapAnnotationsForExport(annotations, exportPageOrder) ==
    IF Len(annotations) = 0 THEN <<>>
    ELSE RemapFrom(annotations, exportPageOrder, 1)

\* a resolve that goes to the first visible page, whatever follows
resolveVisiblePageFirst(st, targetPage) ==
    IF st.pageCount = 0 THEN targetPage
    ELSE IF ~isPageHidden(st, targetPage) /\ ~isPageDeleted(st, targetPage)
         THEN targetPage
         ELSE LET visible == getVisiblePages(st)
              IN  IF Len(visible) = 0 THEN targetPage ELSE visible[1]

resolveVisiblePage(st, targetPage) ==
    IF st.pageCount = 0 THEN targetPage
    ELSE IF ~isPageHidden(st, targetPage) /\ ~isPageDeleted(st, targetPage)
         THEN targetPage
         ELSE LET visible == getVisiblePages(st)
                  after == SelectSeq(visible, LAMBDA page : page >= targetPage)
              IN  IF Len(visible) = 0 THEN targetPage
                  ELSE IF Len(after) > 0 THEN after[1]
                       ELSE visible[Len(visible)]

getNeighborVisiblePage(st, current, direction) ==
    LET visible == getVisiblePages(st)
        at == {i \in 1 .. Len(visible) : visible[i] = current}
    IN  IF Len(visible) = 0 THEN current
        ELSE IF at = {} THEN resolveVisiblePage(st, current)
             ELSE LET index == CHOOSE i \in at : TRUE
                  IN  visible[clamp(index + direction, 1, Len(visible))]

\* the synchronous head of refreshViewer, up to its await of the render
refreshViewerHead(st) ==
    IF st.pdfDoc = <<>> \/ st.pageCount = 0 THEN st
    ELSE [st EXCEPT !.currentPage = resolveVisiblePage(st, st.currentPage)]


(***************************************************************************)
(* Tasks: the runs of asynchronous handlers, stopped at an await.          *)
(***************************************************************************)
IdleLoad == [pc |-> "idle", file |-> NoFile, bytes |-> 0, workingBytes |-> 0]

IdleReorder ==
    [pc |-> "idle", bytes |-> 0, workingBytes |-> 0, pageOrder |-> <<>>,
     assets |-> <<>>,
     current |-> [k \in Collections |-> <<>>],
     remapped |-> [k \in Collections |-> <<>>],
     currentProperties |-> EmptyPageProperties,
     pageProperties |-> EmptyPageProperties]

IdleExport ==
    [pc |-> "idle", exportPageOrder |-> <<>>, inputBytes |-> 0,
     annotations |-> <<>>, exportBytes |-> 0]

IdleResume ==
    [pc |-> "idle", file |-> NoFile, bytes |-> 0, workingBytes |-> 0,
     session |-> <<>>]

InitialClosure ==
    [activeDraw       |-> <<>>,
     activeHighlight  |-> <<>>,
     activeShape      |-> <<>>,
     inStore          |-> [draw |-> FALSE, highlight |-> FALSE, shape |-> FALSE],
     listeners        |-> <<>>,
     drag             |-> <<>>,
     pendingSession   |-> <<>>,
     sessionSaveTimer |-> FALSE]

\* the canvas before anything is drawn on it
BlankCanvas == [page |-> 0, rotation |-> 0]

\* the Page Properties pane as updatePagePropertiesUi leaves it for the page
\* the state shows: hideToggle.checked, and isDeleted, which disables the
\* checkbox and Delete Page and shows Restore Page
PaneOf(st) ==
    [hideChecked |-> isPageHidden(st, st.currentPage),
     isDeleted |-> isPageDeleted(st, st.currentPage)]

updatePagePropertiesUi(u, st) == [u EXCEPT !.pane = PaneOf(st)]

InitialUi ==
    [status |-> "", isError |-> FALSE, canvas |-> BlankCanvas, overlayPage |-> 0,
     renders |-> <<>>, pane |-> PaneOf(InitialState)]

\* a status line that shows every message as an ordinary one
setStatusPlain(u, message, isError) ==
    [u EXCEPT !.status = message, !.isError = FALSE]

setStatus(u, message, isError) ==
    [u EXCEPT !.status = message, !.isError = isError]

\* refreshViewer awaits renderPageToCanvas for the page the state shows:
\* the render is pending, begun by `by` (a load, a reorder, a restore or the
\* viewer's own buttons)
startRender(u, by, st) ==
    [u EXCEPT !.renders = Append(@, [by |-> by, page |-> st.currentPage])]

\* what renderPageToCanvas has drawn when it ends: the page at the scale
\* given, in the viewport getViewport makes of the scale alone, so as the
\* file has the page
renderPageToCanvas(render, st) == [page |-> render.page, rotation |-> 0]

\* the pending render at `index` ends and refreshViewer goes on: the ink
\* layers, the page label, the Page Properties pane and the annotations are
\* rendered for the page the state shows by then
finishRender(u, index, st) ==
    [u EXCEPT !.canvas = renderPageToCanvas(u.renders[index], st),
              !.overlayPage = st.currentPage,
              !.pane = PaneOf(st),
              !.renders = [i \in 1 .. Len(@) - 1 |->
                              IF i < index THEN @[i] ELSE @[i + 1]]]

\* the pending render begun by `by`
renderOf(u, by) == CHOOSE i \in 1 .. Len(u.renders) : u.renders[i].by = by

\* the state after initApp, with the stored preference `remember` for
\* "Remember recent documents", the session history `entries` that
\* loadSessionHistory finds and the signature `profile` that
\* loadSignatureProfile finds
InitApp(remember, entries, profile) ==
    /\ state = [InitialState EXCEPT !.sessionHistoryEnabled = remember,
                                    !.sessionEntries = entries,
                                    !.signatureProfile = profile]
    /\ origin = [id \in AnnIds |-> <<>>]
    /\ heap = [b \in BufIds |-> NoBytes]
    /\ closure = InitialClosure
    /\ loadTask = IdleLoad
    /\ reorderTask = IdleReorder
    /\ exportTask = IdleExport
    /\ resumeTask = IdleResume
    /\ ui = InitialUi

XfIdle ==
    xf = [pc |-> "off",
          overlayRect |-> [x |-> 0, y |-> 0, width |-> 0, height |-> 0],
          pageSize |-> [width |-> 0, height |-> 0],
          overlaySize |-> [width |-> 0, height |-> 0],
          rect |-> NoRect,
          point |-> NoPoint]

\* ids in use: createId never returns an id that is still referred to
IdsOf(annotations) == {annotations[i].id : i \in 1 .. Len(annotations)}

SessionIds(entries) ==
    UNION {{entries[i].annotations[j].item.id :
                j \in 1 .. Len(entries[i].annotations)} :
           i \in 1 .. Len(entries)}

UsedIds(st, cl, rt, rs) ==
    UNION {IdsOf(st[k]) : k \in Collections}
        \cup UNION {IdsOf(rt.remapped[k]) : k \in Collections}
        \cup IdsOf(st.shapeDraft) \cup IdsOf(cl.activeDraw)
        \cup IdsOf(cl.activeHighlight) \cup IdsOf(cl.activeShape)
        \cup SessionIds(st.sessionEntries) \cup SessionIds(cl.pendingSession)
        \cup SessionIds(rs.session)

FreeIds == AnnIds \ UsedIds(state, closure, reorderTask, resumeTask)

CanCreateId == FreeIds # {}

createId == CHOOSE id \in FreeIds : \A other \in FreeIds : id <= other

\* heap' once the buffers nothing refers to are given back
Collected(h) ==
    heap' = Collect(h, LiveBufs(state', loadTask', reorderTask', exportTask',
                                resumeTask'))

\* the store no longer holds the objects the gesture variables refer to
Detached(cl) ==
    [cl EXCEPT !.inStore = [draw |-> FALSE, highlight |-> FALSE, shape |-> FALSE],
               !.drag = [i \in 1 .. Len(@) |-> [@[i] EXCEPT !.attached = FALSE]]]

(***************************************************************************)
(* Session history (app.js 503-686).                                       *)
(***************************************************************************)
SessionLimit == 12

Typed(type, annotations) ==
    [i \in 1 .. Len(annotations) |-> [type |-> type, item |-> annotations[i]]]

\* the asset as it is serialized: all of it but the preview URL
SerializedAsset(asset) ==
    [id |-> asset.id, name |-> asset.name, imageData |-> asset.imageData,
     naturalWidth |-> asset.naturalWidth, naturalHeight |-> asset.naturalHeight]

\* an image annotation is serialized with the asset state.imageAssets.find
\* gives for it, none when there is no such asset
TypedImages(st) ==
    [i \in 1 .. Len(st.imageAnnotations) |->
        LET annotation == st.imageAnnotations[i]
            found == SelectSeq(st.imageAssets,
                               LAMBDA item : item.id = annotation.assetId)
        IN  [type |-> "image", item |-> annotation,
             asset |-> IF found = <<>> THEN <<>>
                       ELSE <<SerializedAsset(found[1])>>]]

serializeSessionAnnotations(st) ==
    TypedImages(st) \o Typed("text", st.textAnnotations)
        \o Typed("draw", st.drawAnnotations)
        \o Typed("highlight", st.highlightAnnotations)
        \o Typed("shape", st.shapeAnnotations)
        \o Typed("signature", st.signatureAnnotations)
        \o Typed("comment", st.commentAnnotations)
        \o Typed("stamp", st.stampAnnotations)

OfType(annotations, type) ==
    LET typed == SelectSeq(annotations, LAMBDA entry : entry.type = type)
    IN  [i \in 1 .. Len(typed) |-> typed[i].item]

\* the URL URL.createObjectURL returns for a file or a blob
createObjectURL(source) == <<"blob:", source>>

mimeType(name) == IF name = "p.png" THEN "image/png" ELSE "image/jpeg"

\* the asset a serialized asset is restored to, with a preview URL made
\* of its data
RestoredAsset(asset) ==
    [id |-> asset.id, name |-> asset.name, imageData |-> asset.imageData,
     naturalWidth |-> asset.naturalWidth, naturalHeight |-> asset.naturalHeight,
     previewUrl |-> createObjectURL([data |-> asset.imageData,
                                     type |-> mimeType(asset.name)])]

\* the values of the map imageAssets once the entries from k on are seen:
\* one asset per id, in the order the ids are met
RECURSIVE restoreAssets(_, _, _)
restoreAssets(annotations, k, assets) ==
    IF k > Len(annotations) THEN assets
    ELSE LET entry == annotations[k]
             has == /\ entry.type = "image"
                    /\ entry.asset # <<>>
                    /\ \A i \in 1 .. Len(assets) : assets[i].id # entry.asset[1].id
         IN  restoreAssets(annotations, k + 1,
                           IF has THEN Append(assets, RestoredAsset(entry.asset[1]))
                           ELSE assets)

\* a restore that brings back the annotations without their assets
applySessionAnnotationsNoAssets(st, annotations) ==
    [st EXCEPT
        !.imageAssets = <<>>,
        !.imageAnnotations = OfType(annotations, "image"),
        !.textAnnotations = OfType(annotations, "text"),
        !.drawAnnotations = OfType(annotations, "draw"),
        !.highlightAnnotations = OfType(annotations, "highlight"),
        !.shapeAnnotations = OfType(annotations, "shape"),
        !.signatureAnnotations = OfType(annotations, "signature"),
        !.commentAnnotations = OfType(annotations, "comment"),
        !.stampAnnotations = OfType(annotations, "stamp")]

applySessionAnnotations(st, annotations) ==
    [st EXCEPT
        !.imageAssets = restoreAssets(annotations, 1, <<>>),
        !.imageAnnotations = OfType(annotations, "image"),
        !.textAnnotations = OfType(annotations, "text"),
        !.drawAnnotations = OfType(annotations, "draw"),
        !.highlightAnnotations = OfType(annotations, "highlight"),
        !.shapeAnnotations = OfType(annotations, "shape"),
        !.signatureAnnotations = OfType(annotations, "signature"),
        !.commentAnnotations = OfType(annotations, "comment"),
        !.stampAnnotations = OfType(annotations, "stamp")]

SessionEntry(fileName, fileHash, st) ==
    [id |-> fileHash,
     fileName |-> IF fileName = "" THEN "Untitled.pdf" ELSE fileName,
     fileHash |-> fileHash,
     annotations |-> serializeSessionAnnotations(st)]

\* the entry goes to the front and an older entry of the same hash stays
withSessionEntryKeep(entries, entry) ==
    LET all == <<entry>> \o entries
    IN  SubSeq(all, 1, IF Len(all) < SessionLimit THEN Len(all) ELSE SessionLimit)

\* the entry goes to the front, an older entry of the same hash goes away
\* and the list is cut to its limit
withSessionEntry(entries, entry) ==
    LET others == SelectSeq(entries, LAMBDA item : item.fileHash # entry.fileHash)
        all == <<entry>> \o others
    IN  SubSeq(all, 1, IF Len(all) < SessionLimit THEN Len(all) ELSE SessionLimit)

\* `state.currentFileHash || createId("session")`: an id of its own when
\* the hash is empty
sessionId(fileHash) == IF fileHash = <<>> THEN <<"session">> ELSE fileHash

\* scheduleSessionSave: the timer is armed, or armed again
scheduleSessionSave(st, cl) ==
    IF ~st.sessionHistoryEnabled \/ st.currentBytes = 0 \/ st.currentFileHash = <<>>
    THEN cl
    ELSE [cl EXCEPT !.sessionSaveTimer = TRUE]

\* the 500 ms timer of scheduleSessionSave fires
SessionSaveFires ==
    /\ closure.sessionSaveTimer
    /\ closure' = [closure EXCEPT !.sessionSaveTimer = FALSE]
    /\ LET entry == [SessionEntry(state.currentFileName, state.currentFileHash,
                                   state)
                          EXCEPT !.id = sessionId(state.currentFileHash)]
       IN  state' = [state EXCEPT !.sessionEntries = withSessionEntry(@, entry)]
    /\ UNCHANGED <<xf, origin, heap, loadTask, reorderTask, exportTask,
                   resumeTask, ui>>

(***************************************************************************)
(* loadPdfBytes (app.js 1837-1924).                                        *)
(***************************************************************************)
numPages(content) == Len(content.pages)

\* lines 1858-1912: every field loadPdfBytes assigns once the document has
\* been parsed, then renderPageList, updatePageLabel and refreshViewer's head
loadPdfBytesAssign(st, workingBytes, originalBytes, content, annotations) ==
    LET assigned ==
            [st EXCEPT
                !.originalBytes = originalBytes,
                !.currentBytes = workingBytes,
                !.pdfDoc = <<content.pages>>,
                !.pageCount = numPages(content),
                !.currentPage = 1,
                !.currentFileName = "",
                !.currentFileHash = <<>>,
                !.pageOrder = [i \in 1 .. numPages(content) |-> i],
                !.imageAnnotations = <<>>,
                !.imageAssets = <<>>,
                !.textAnnotations = <<>>,
                !.selectedTextId = 0,
                !.drawAnnotations = <<>>,
                !.highlightAnnotations = <<>>,
                !.shapeAnnotations = <<>>,
                !.shapeDraft = <<>>,
                !.signatureAnnotations = <<>>,
                !.commentAnnotations = <<>>,
                !.stampAnnotations = <<>>,
                !.selectedStampId = 0,
                !.commentsVisible = TRUE,
                !.pageProperties = EmptyPageProperties,
                !.shapeType = DefaultShapeType,
                !.textDefaults = DefaultTextStyle,
                !.signaturePlacementMode = "full"]
    IN  refreshViewerHead(
            IF annotations = <<>> THEN assigned
            ELSE applySessionAnnotations(assigned, annotations[1]))

\* origin' once the ids nothing refers to are forgotten
Tracked(o) ==
    origin' = [id \in AnnIds |->
                  IF id \in UsedIds(state', closure', reorderTask', resumeTask')
                  THEN o[id] ELSE <<>>]

(***************************************************************************)
(* loadInput change handler (app.js 2361-2394).                            *)
(***************************************************************************)
\* the user picks a file; a file that is no PDF by name or type is
\* refused, else the handler awaits readFileAsArrayBuffer
LoadChange(file) ==
    /\ loadTask.pc = "idle"
    /\ IF isPdfFile(file)
       THEN /\ loadTask' = [IdleLoad EXCEPT !.pc = "reading", !.file = file]
            /\ ui' = ui
       ELSE /\ loadTask' = loadTask
            /\ ui' = setStatus(ui, "Only PDF files are supported.", TRUE)
    /\ UNCHANGED <<xf, origin, state, heap, closure, reorderTask, exportTask,
                   resumeTask>>

\* the file is read.  loadPdfBytes checks the header: of a PDF it copies the
\* bytes and awaits loadPdfDocument (the copy handed to the parser is not
\* kept); of anything else it reports and returns, and the handler goes on
\* to trackSessionOnOpen
LoadRead ==
    /\ loadTask.pc = "reading"
    /\ Cardinality(FreeBufs(heap)) >= 2
    /\ UNCHANGED <<xf, origin, closure, reorderTask, exportTask, resumeTask>>
    /\ LET bytes == NewBuf(heap)
           h1 == Store(heap, bytes, loadTask.file.bytes)
           workingBytes == NewBuf(h1)
           h2 == Store(h1, workingBytes, loadTask.file.bytes)
       IN  IF isPdfBytes(loadTask.file.bytes)
           THEN /\ loadTask' = [loadTask EXCEPT !.pc = "parsing", !.bytes = bytes,
                                                !.workingBytes = workingBytes]
                /\ UNCHANGED <<state, ui>>
                /\ Collected(h2)
           ELSE /\ ui' = setStatus(ui, "Selected file is not a valid PDF.", TRUE)
                /\ IF state.sessionHistoryEnabled
                   THEN /\ state' = [state EXCEPT
                                        !.currentFileName = loadTask.file.name]
                        /\ loadTask' = [loadTask EXCEPT !.pc = "hashing",
                                                        !.bytes = bytes]
                   ELSE /\ state' = state
                        /\ loadTask' = IdleLoad
                /\ Collected(h1)

\* the document is parsed: loadPdfBytes replaces the state and awaits the
\* first render
LoadParsed ==
    /\ loadTask.pc = "parsing"
    /\ FreeBufs(heap) # {}
    /\ LET originalBytes == NewBuf(heap)
           content == heap[loadTask.workingBytes]
           h1 == Store(heap, originalBytes, content)
       IN  /\ state' = loadPdfBytesAssign(state, loadTask.workingBytes,
                                          originalBytes, content, <<>>)
           /\ loadTask' = [loadTask EXCEPT !.pc = "rendering",
                                           !.workingBytes = 0]
           /\ closure' = Detached(closure)
           /\ ui' = startRender(ui, "load", state')
           /\ UNCHANGED <<xf, reorderTask, exportTask, resumeTask>>
           /\ Collected(h1)
           /\ Tracked(origin)

\* the render is done: "PDF loaded successfully."; trackSessionOnOpen
\* returns at once when history is off, else it names the file and awaits
\* the hash
LoadRendered ==
    /\ loadTask.pc = "rendering"
    /\ ui' = setStatus(finishRender(ui, renderOf(ui, "load"), state),
                       "PDF loaded successfully.", FALSE)
    /\ IF state.sessionHistoryEnabled
       THEN /\ state' = [state EXCEPT !.currentFileName = loadTask.file.name]
            /\ loadTask' = [loadTask EXCEPT !.pc = "hashing"]
       ELSE /\ state' = state
            /\ loadTask' = IdleLoad
    /\ UNCHANGED <<xf, origin, closure, reorderTask, exportTask, resumeTask>>
    /\ Collected(heap)

\* the hash of the file is known: trackSessionOnOpen records the session and
\* awaits saveSessionHistory
LoadHashed ==
    /\ loadTask.pc = "hashing"
    /\ LET hash == hashBytes(heap[loadTask.bytes])
           hashed == [state EXCEPT !.currentFileHash = hash]
       IN  state' = [hashed EXCEPT !.sessionEntries =
                        withSessionEntry(@, SessionEntry(loadTask.file.name, hash,
                                                         hashed))]
    /\ loadTask' = [loadTask EXCEPT !.pc = "saving", !.bytes = 0]
    /\ UNCHANGED <<xf, origin, closure, reorderTask, exportTask, resumeTask, ui>>
    /\ Collected(heap)

\* the history is saved and the handler ends
LoadSaved ==
    /\ loadTask.pc = "saving"
    /\ loadTask' = IdleLoad
    /\ UNCHANGED <<xf, origin, state, heap, closure, reorderTask, exportTask,
                   resumeTask, ui>>

(***************************************************************************)
(* Page list, navigation and the Page Properties pane.                     *)
(***************************************************************************)
Swap(order, i, j) ==
    [k \in 1 .. Len(order) |->
        IF k = i THEN order[j] ELSE IF k = j THEN order[i] ELSE order[k]]

\* "Up" on the item at `index` of the page list (renderPageList)
MoveUp(index) ==
    /\ index \in 2 .. Len(state.pageOrder)
    /\ state' = [state EXCEPT !.pageOrder = Swap(state.pageOrder, index - 1, index)]
    /\ UNCHANGED <<xf, origin, heap, closure, loadTask, reorderTask, exportTask,
                   resumeTask, ui>>

\* "Down" on the item at `index` of the page list
MoveDown(index) ==
    /\ index \in 1 .. Len(state.pageOrder) - 1
    /\ state' = [state EXCEPT !.pageOrder = Swap(state.pageOrder, index + 1, index)]
    /\ UNCHANGED <<xf, origin, heap, closure, loadTask, reorderTask, exportTask,
                   resumeTask, ui>>

\* the handler of Previous (direction -1) and Next (direction 1)
navigate(st, direction) ==
    LET nextPage == getNeighborVisiblePage(st, st.currentPage, direction)
    IN  IF nextPage # st.currentPage
        THEN refreshViewerHead([st EXCEPT !.currentPage = nextPage])
        ELSE st

\* Previous (direction -1) and Next (direction 1)
Navigate(direction) ==
    /\ state' = navigate(state, direction)
    /\ state' # state
    /\ ui' = updatePagePropertiesUi(ui, state')
    /\ UNCHANGED <<xf, origin, heap, closure, loadTask, reorderTask, exportTask,
                   resumeTask>>

SetProperties(st, properties) ==
    refreshViewerHead([st EXCEPT !.pageProperties = properties])

\* the "Hide in preview" checkbox has been ticked (`checked`) or unticked
hideToggle(st, checked) ==
    LET page == st.currentPage
        props == st.pageProperties
        hidden == IF checked
                  THEN props.hidden \cup {page}
                  ELSE props.hidden \ {page}
    IN  SetProperties(st, [props EXCEPT !.hidden = hidden])

\* the checkbox, enabled unless the pane shows a deleted page, is clicked
HideToggle ==
    /\ ~ui.pane.isDeleted
    /\ state' = hideToggle(state, ~ui.pane.hideChecked)
    /\ ui' = updatePagePropertiesUi(ui, state')
    /\ UNCHANGED <<xf, origin, heap, closure, loadTask, reorderTask, exportTask,
                   resumeTask>>

\* "Delete Page", enabled unless the pane shows a deleted page, confirmed
DeletePage ==
    /\ ~ui.pane.isDeleted
    /\ LET page == state.currentPage
           props == state.pageProperties
       IN  state' = SetProperties(state,
                        [props EXCEPT !.deleted = props.deleted \cup {page},
                                      !.hidden = props.hidden \ {page}])
    /\ ui' = updatePagePropertiesUi(ui, state')
    /\ UNCHANGED <<xf, origin, heap, closure, loadTask, reorderTask, exportTask,
                   resumeTask>>

\* "Restore Page", shown while the pane shows a deleted page
restorePage(st) ==
    LET page == st.currentPage
        props == st.pageProperties
    IN  SetProperties(st, [props EXCEPT !.deleted = props.deleted \ {page}])

RestorePage ==
    /\ ui.pane.isDeleted
    /\ state' = restorePage(state)
    /\ ui' = updatePagePropertiesUi(ui, state')
    /\ UNCHANGED <<xf, origin, heap, closure, loadTask, reorderTask, exportTask,
                   resumeTask>>

\* "Duplicate Page"
DuplicatePage ==
    /\ state.pageProperties.duplicates[state.currentPage] < MaxDuplicates
    /\ state' = [state EXCEPT
                    !.pageProperties.duplicates[state.currentPage] = @ + 1]
    /\ ui' = updatePagePropertiesUi(
                 setStatus(ui, "Page duplicated for export.", FALSE), state')
    /\ UNCHANGED <<xf, origin, heap, closure, loadTask, reorderTask, exportTask,
                   resumeTask>>

\* "Remove Duplicate"
RemoveDuplicate ==
    /\ state.pageProperties.duplicates[state.currentPage] > 0
    /\ state' = [state EXCEPT
                    !.pageProperties.duplicates[state.currentPage] = @ - 1]
    /\ ui' = updatePagePropertiesUi(ui, state')
    /\ UNCHANGED <<xf, origin, heap, closure, loadTask, reorderTask, exportTask,
                   resumeTask>>

\* "Rotate Left" (degrees -90) and "Rotate Right" (degrees 90)
Rotate(degrees) ==
    /\ state' = refreshViewerHead(
                    [state EXCEPT
                        !.pageProperties.rotations[state.currentPage] =
                            (@ + degrees + 360) % 360])
    /\ ui' = updatePagePropertiesUi(ui, state')
    /\ UNCHANGED <<xf, origin, heap, closure, loadTask, reorderTask, exportTask,
                   resumeTask>>

(***************************************************************************)
(* Tools and the click that places an annotation.                          *)
(***************************************************************************)
\* a setActiveTool that keeps the draft
setActiveToolKeepDraft(st, toolId) == [st EXCEPT !.activeTool = toolId]

\* setActiveTool: a tool button, or Escape with toolId "select"
setActiveTool(st, toolId) ==
    [st EXCEPT !.activeTool = toolId,
               !.shapeDraft = IF toolId # "shapes" THEN <<>> ELSE @]

SelectTool(toolId) ==
    /\ state.activeTool # toolId
    /\ state' = setActiveTool(state, toolId)
    /\ closure' = [closure EXCEPT
                      !.inStore.shape = IF toolId # "shapes" THEN FALSE ELSE @]
    /\ UNCHANGED <<xf, heap, loadTask, reorderTask, exportTask, resumeTask, ui>>
    /\ Tracked(origin)

\* the handler of the Comments: On / Off button
commentToggle(st) == [st EXCEPT !.commentsVisible = ~@]

CommentToggle ==
    /\ state' = commentToggle(state)
    /\ UNCHANGED <<xf, origin, heap, closure, loadTask, reorderTask, exportTask,
                   resumeTask, ui>>

\* renderCommentAnnotations: the comments the overlay shows
renderCommentAnnotations(st) ==
    IF ~st.commentsVisible THEN <<>>
    ELSE SelectSeq(st.commentAnnotations,
                   LAMBDA annotation : annotation.pageNumber = st.currentPage)

\* the tools of TOOL_DEFS, one button each
ToolIds ==
    {"select", "text", "draw", "highlight", "shapes", "comment", "stamp",
     "page-properties", "image", "signature", "split"}

\* the buttons setActiveTool has left with data-active "true"
activeButtons(st) == {id \in ToolIds : id = st.activeTool}

\* the Escape key
Escape ==
    /\ state' = setActiveTool(state, "select")
    /\ state' # state
    /\ closure' = [closure EXCEPT !.inStore.shape = FALSE]
    /\ UNCHANGED <<xf, heap, loadTask, reorderTask, exportTask, resumeTask, ui>>
    /\ Tracked(origin)

\* the shape type select of the Shapes pane
SelectShapeType(shapeType) ==
    /\ state.shapeType # shapeType
    /\ state' = [state EXCEPT !.shapeType = shapeType, !.shapeDraft = <<>>]
    /\ closure' = [closure EXCEPT !.inStore.shape = FALSE]
    /\ UNCHANGED <<xf, heap, loadTask, reorderTask, exportTask, resumeTask, ui>>
    /\ Tracked(origin)

\* the annotation the click handler builds for the active tool
PlacedAnnotation(tool, id, page, point, bounds) ==
    CASE tool = "text" ->
            [id |-> id, pageNumber |-> page,
             x |-> clamp(point.x, 0, bounds.width - 160),
             y |-> clamp(point.y, 0, bounds.height - 32),
             width |-> 160, height |-> 32, text |-> "",
             spans |-> <<Span("", DefaultTextStyle)>>,
             overlayWidth |-> bounds.width, overlayHeight |-> bounds.height]
      [] tool = "signature" ->
            [id |-> id, pageNumber |-> page,
             x |-> clamp(point.x - 110, 0, bounds.width - 220),
             y |-> clamp(point.y - 36, 0, bounds.height - 72),
             width |-> 220, height |-> 72, text |-> "name", fontId |-> "script",
             overlayWidth |-> bounds.width, overlayHeight |-> bounds.height]
      [] tool = "comment" ->
            [id |-> id, pageNumber |-> page,
             x |-> clamp(point.x, 0, bounds.width - 180),
             y |-> clamp(point.y, 0, bounds.height - 80),
             width |-> 180, height |-> 80, text |-> "Comment",
             overlayWidth |-> bounds.width, overlayHeight |-> bounds.height]
      [] OTHER ->
            [id |-> id, pageNumber |-> page,
             x |-> clamp(point.x, 0, bounds.width - 200),
             y |-> clamp(point.y, 0, bounds.height - 60),
             width |-> 200, height |-> 60, text |-> "APPROVED",
             overlayWidth |-> bounds.width, overlayHeight |-> bounds.height]

CollectionOfTool(tool) ==
    CASE tool = "text" -> "textAnnotations"
      [] tool = "signature" -> "signatureAnnotations"
      [] tool = "comment" -> "commentAnnotations"
      [] OTHER -> "stampAnnotations"

ClickTools == {"text", "signature", "comment", "stamp"}

\* a profile with a name and a font is there
SignatureReady(st) ==
    /\ st.signatureProfile # <<>>
    /\ st.signatureProfile[1].name # ""
    /\ st.signatureProfile[1].fontId # ""

\* the text a click places: the initials in the placement mode "initials"
\* when the profile has initials, else the name
signatureText(st) ==
    LET profile == st.signatureProfile[1]
    IN  IF st.signaturePlacementMode = "initials" /\ profile.initials # ""
        THEN profile.initials
        ELSE profile.name

\* a click that copies the text of the placed signature from the input
\* field of the pane, here empty, and not from the profile
withSignatureBlank(annotation, st) ==
    [annotation EXCEPT !.text = "", !.fontId = st.signatureProfile[1].fontId]

\* the text box placed has one empty span in the style of state.textDefaults
withTextDefaults(annotation, st) ==
    [annotation EXCEPT !.spans = <<Span("", st.textDefaults)>>]

\* the signature placed takes its text and its fontId from the profile
withSignature(annotation, st) ==
    [annotation EXCEPT !.text = signatureText(st),
                       !.fontId = st.signatureProfile[1].fontId]

\* a click on the empty overlay at `point` while the overlay measures `bounds`
OverlayClick(point, bounds) ==
    /\ state.activeTool \in ClickTools
    /\ IF state.currentBytes = 0
       THEN /\ ui' = setStatus(ui, "Load a PDF before adding annotations.", TRUE)
            /\ UNCHANGED <<state, closure, origin>>
       ELSE IF state.activeTool = "signature" /\ ~SignatureReady(state)
       THEN /\ ui' = setStatus(ui, "Create and select a signature style first.",
                               TRUE)
            /\ UNCHANGED <<state, closure, origin>>
       ELSE IF bounds.width = 0 \/ bounds.height = 0
       THEN /\ ui' = setStatus(ui, "Overlay not ready yet. Try again.", TRUE)
            /\ UNCHANGED <<state, closure, origin>>
       ELSE /\ CanCreateId
            /\ LET tool == state.activeTool
                   placed == PlacedAnnotation(tool, createId, state.currentPage,
                                              point, bounds)
                   annotation == IF tool = "signature"
                                 THEN withSignature(placed, state)
                                 ELSE IF tool = "text"
                                 THEN withTextDefaults(placed, state)
                                 ELSE placed
                   added == [state EXCEPT ![CollectionOfTool(tool)] =
                                              Append(@, annotation)]
               IN  /\ state' =
                          IF tool = "text"
                          THEN [added EXCEPT !.selectedTextId = annotation.id]
                          ELSE IF tool = "stamp"
                          THEN [added EXCEPT !.selectedStampId = annotation.id]
                          ELSE added
                   /\ origin' = [origin EXCEPT ![annotation.id] = state.pdfDoc]
            /\ closure' = scheduleSessionSave(state', closure)
            /\ ui' = ui
    /\ UNCHANGED <<xf, heap, loadTask, reorderTask, exportTask, resumeTask>>

\* updateSelection: the placement "initials" is offered only while the
\* profile has initials
updateSelection(st) ==
    IF st.signatureProfile # <<>> /\ st.signatureProfile[1].initials # ""
    THEN st
    ELSE [st EXCEPT !.signaturePlacementMode = "full"]

\* a style button of the signature pane, made by renderVariants for the
\* `name` and the `initials` typed (no initials is ""): a button of the full
\* styles keeps the initials typed, and the initials styles are there only
\* when initials are typed
SelectSignatureStyle(name, initials, fontId) ==
    /\ name # ""
    /\ state' = updateSelection(
                    [state EXCEPT !.signatureProfile =
                        <<[name |-> name, initials |-> initials,
                           fontId |-> fontId]>>])
    /\ state' # state
    /\ UNCHANGED <<xf, origin, heap, closure, loadTask, reorderTask, exportTask,
                   resumeTask, ui>>

\* the Placement select of the signature pane
SelectPlacement(mode) ==
    /\ mode = "initials" => state.signatureProfile # <<>>
                                /\ state.signatureProfile[1].initials # ""
    /\ state' = [state EXCEPT !.signaturePlacementMode = mode]
    /\ state' # state
    /\ UNCHANGED <<xf, origin, heap, closure, loadTask, reorderTask, exportTask,
                   resumeTask, ui>>

\* "Clear Saved Signature", once clearSignatureProfile has returned
ClearSignature ==
    /\ state' = updateSelection([state EXCEPT !.signatureProfile = <<>>])
    /\ ui' = setStatus(ui, "Signature cleared.", FALSE)
    /\ UNCHANGED <<xf, origin, heap, closure, loadTask, reorderTask, exportTask,
                   resumeTask>>

(***************************************************************************)
(* Pointer gestures on the overlay (app.js 2465-2631, 2803-2839).          *)
(*                                                                         *)
(* activeDraw, activeHighlight and activeShape refer to annotation         *)
(* objects.  closure.inStore tells whether the object a variable refers to *)
(* is the one held by the store (for activeShape: by state.shapeDraft);    *)
(* it is not once the store has been replaced by copies or emptied.  The   *)
(* points array of a freehand path is shared by every copy of the path.    *)
(***************************************************************************)
Min(a, b) == IF a < b THEN a ELSE b

Max(a, b) == IF a > b THEN a ELSE b

ReplaceById(annotations, annotation) ==
    [i \in 1 .. Len(annotations) |->
        IF annotations[i].id = annotation.id THEN annotation ELSE annotations[i]]

WithoutId(annotations, id) == SelectSeq(annotations, LAMBDA item : item.id # id)

NewDraw(id, page, start, bounds) ==
    [id |-> id, pageNumber |-> page, points |-> <<start>>,
     overlayWidth |-> bounds.width, overlayHeight |-> bounds.height]

NewHighlight(id, page, start, bounds) ==
    [id |-> id, pageNumber |-> page, x |-> start.x, y |-> start.y,
     width |-> 0, height |-> 0,
     overlayWidth |-> bounds.width, overlayHeight |-> bounds.height]

NewShape(id, page, shapeType, geometry, preview, bounds) ==
    [id |-> id, pageNumber |-> page, shapeType |-> shapeType,
     geometry |-> geometry, previewPoint |-> preview,
     overlayWidth |-> bounds.width, overlayHeight |-> bounds.height]

IsMultiClick(shapeType) == shapeType \in {"polygon", "cloud"}

IsLine(shapeType) == shapeType \in {"line", "arrow"}

GestureTools == {"draw", "highlight", "shapes"}

\* pointerdown on the overlay with the primary button
PointerDown(start, bounds) ==
    /\ state.activeTool \in GestureTools
    /\ IF state.currentBytes = 0
       THEN /\ ui' = setStatus(ui, "Load a PDF before drawing.", TRUE)
            /\ UNCHANGED <<state, closure, origin>>
       ELSE IF bounds.width = 0 \/ bounds.height = 0
       THEN /\ ui' = setStatus(ui, "Overlay not ready yet. Try again.", TRUE)
            /\ UNCHANGED <<state, closure, origin>>
       ELSE IF state.activeTool = "draw"
       THEN /\ CanCreateId
            /\ Len(closure.listeners) < MaxListeners
            /\ LET draw == NewDraw(createId, state.currentPage, start, bounds)
               IN  /\ state' = [state EXCEPT !.drawAnnotations = Append(@, draw)]
                   /\ closure' = [closure EXCEPT
                                     !.activeDraw = <<draw>>,
                                     !.inStore.draw = TRUE,
                                     !.listeners = Append(@, [start |-> start])]
                   /\ origin' = [origin EXCEPT ![draw.id] = state.pdfDoc]
            /\ ui' = ui
       ELSE IF state.activeTool = "highlight"
       THEN /\ CanCreateId
            /\ Len(closure.listeners) < MaxListeners
            /\ LET highlight == NewHighlight(createId, state.currentPage, start,
                                             bounds)
               IN  /\ state' = [state EXCEPT
                                   !.highlightAnnotations = Append(@, highlight)]
                   /\ closure' = [closure EXCEPT
                                     !.activeHighlight = <<highlight>>,
                                     !.inStore.highlight = TRUE,
                                     !.listeners = Append(@, [start |-> start])]
                   /\ origin' = [origin EXCEPT ![highlight.id] = state.pdfDoc]
            /\ ui' = ui
       ELSE IF IsMultiClick(state.shapeType)
       THEN /\ ui' = ui
            /\ IF state.shapeDraft = <<>>
                  \/ state.shapeDraft[1].shapeType # state.shapeType
               THEN /\ CanCreateId
                    /\ LET draft == NewShape(createId, state.currentPage,
                                             state.shapeType,
                                             [x |-> 0, y |-> 0, width |-> 0,
                                              height |-> 0, points |-> <<start>>],
                                             <<start>>, bounds)
                       IN  /\ state' = [state EXCEPT !.shapeDraft = <<draft>>]
                           /\ origin' = [origin EXCEPT ![draft.id] = state.pdfDoc]
                    /\ closure' = [closure EXCEPT !.inStore.shape = FALSE]
               ELSE /\ Len(state.shapeDraft[1].geometry.points) < MaxClicks
                    /\ state' = [state EXCEPT
                                    !.shapeDraft[1].geometry.points =
                                        Append(@, start)]
                    /\ UNCHANGED <<closure, origin>>
       ELSE /\ CanCreateId
            /\ Len(closure.listeners) < MaxListeners
            /\ LET shape == NewShape(createId, state.currentPage, state.shapeType,
                                     [x |-> start.x, y |-> start.y, width |-> 0,
                                      height |-> 0, points |-> <<start, start>>],
                                     <<>>, bounds)
               IN  /\ state' = [state EXCEPT !.shapeDraft = <<shape>>]
                   /\ closure' = [closure EXCEPT
                                     !.activeShape = <<shape>>,
                                     !.inStore.shape = TRUE,
                                     !.listeners = Append(@, [start |-> start])]
                   /\ origin' = [origin EXCEPT ![shape.id] = state.pdfDoc]
            /\ ui' = ui
    /\ UNCHANGED <<xf, heap, loadTask, reorderTask, exportTask, resumeTask>>

\* onMove of the gesture that began at `start`, for a pointer at `current`;
\* sc is the pair [st, cl] of state and closure it works on
onMoveDraw(sc, current) ==
    IF sc.st.activeTool = "draw" /\ sc.cl.activeDraw # <<>>
    THEN LET draw == [sc.cl.activeDraw[1] EXCEPT !.points = Append(@, current)]
         IN  [st |-> [sc.st EXCEPT !.drawAnnotations =
                         [i \in 1 .. Len(@) |->
                             IF @[i].id = draw.id
                             THEN [@[i] EXCEPT !.points = draw.points]
                             ELSE @[i]]],
              cl |-> [sc.cl EXCEPT !.activeDraw = <<draw>>]]
    ELSE sc

onMoveHighlight(sc, start, current) ==
    IF sc.st.activeTool = "highlight" /\ sc.cl.activeHighlight # <<>>
    THEN LET highlight ==
                 [sc.cl.activeHighlight[1] EXCEPT
                     !.x = Min(start.x, current.x),
                     !.y = Min(start.y, current.y),
                     !.width = Abs(current.x - start.x),
                     !.height = Abs(current.y - start.y)]
         IN  [st |-> IF sc.cl.inStore.highlight
                     THEN [sc.st EXCEPT !.highlightAnnotations =
                                            ReplaceById(@, highlight)]
                     ELSE sc.st,
              cl |-> [sc.cl EXCEPT !.activeHighlight = <<highlight>>]]
    ELSE sc

onMoveShape(sc, start, current) ==
    IF sc.st.activeTool = "shapes" /\ sc.cl.activeShape # <<>>
    THEN LET old == sc.cl.activeShape[1]
             shape ==
                 IF IsLine(old.shapeType)
                 THEN [old EXCEPT !.geometry.points = <<start, current>>]
                 ELSE [old EXCEPT
                          !.geometry.x = Min(start.x, current.x),
                          !.geometry.y = Min(start.y, current.y),
                          !.geometry.width =
                              Max(start.x, current.x) - Min(start.x, current.x),
                          !.geometry.height =
                              Max(start.y, current.y) - Min(start.y, current.y)]
         IN  [st |-> IF sc.cl.inStore.shape
                     THEN [sc.st EXCEPT !.shapeDraft = <<shape>>]
                     ELSE sc.st,
              cl |-> [sc.cl EXCEPT !.activeShape = <<shape>>]]
    ELSE sc

onMovePreview(sc, current) ==
    IF /\ sc.st.activeTool = "shapes"
       /\ sc.st.shapeDraft # <<>>
       /\ IsMultiClick(sc.st.shapeDraft[1].shapeType)
    THEN [sc EXCEPT !.st.shapeDraft[1].previewPoint = <<current>>]
    ELSE sc

onMove(sc, start, current) ==
    onMovePreview(
        onMoveShape(onMoveHighlight(onMoveDraw(sc, current), start, current),
                    start, current),
        current)

RECURSIVE onMoveAll(_, _, _)
onMoveAll(sc, listeners, current) ==
    IF listeners = <<>> THEN sc
    ELSE onMoveAll(onMove(sc, listeners[1].start, current), Tail(listeners),
                   current)

\* pointermove: the overlay's own listener, then every onMove on the window
PointerMove(current) ==
    /\ state.activeTool \in GestureTools
    /\ closure.listeners # <<>>
          \/ (state.activeTool = "shapes" /\ state.shapeDraft # <<>>)
    /\ (state.activeTool = "draw" /\ closure.activeDraw # <<>>)
          => Len(closure.activeDraw[1].points) + Len(closure.listeners)
                 <= MaxPoints
    /\ LET sc == onMoveAll(onMovePreview([st |-> state, cl |-> closure], current),
                           closure.listeners, current)
       IN  /\ state' = sc.st
           /\ closure' = sc.cl
    /\ UNCHANGED <<xf, origin, heap, loadTask, reorderTask, exportTask,
                   resumeTask, ui>>

\* line 2607: the highlight is discarded
tooSmall(highlight) == highlight.width < 2 \/ highlight.height < 2

\* line 2616-2618
hasSize(shape) ==
    IF IsLine(shape.shapeType)
    THEN Len(shape.geometry.points) = 2
    ELSE shape.geometry.width > 2 /\ shape.geometry.height > 2

onUp(sc) ==
    LET st1 == IF sc.cl.activeHighlight # <<>>
                  /\ tooSmall(sc.cl.activeHighlight[1])
               THEN [sc.st EXCEPT !.highlightAnnotations =
                                      WithoutId(@, sc.cl.activeHighlight[1].id)]
               ELSE sc.st
        cl1 == [sc.cl EXCEPT !.activeDraw = <<>>, !.activeHighlight = <<>>,
                             !.inStore.draw = FALSE,
                             !.inStore.highlight = FALSE]
    IN  IF cl1.activeShape # <<>> /\ ~IsMultiClick(cl1.activeShape[1].shapeType)
        THEN [st |-> [st1 EXCEPT
                         !.shapeAnnotations =
                             IF hasSize(cl1.activeShape[1])
                             THEN Append(@, cl1.activeShape[1])
                             ELSE @,
                         !.shapeDraft = <<>>],
              cl |-> [cl1 EXCEPT !.activeShape = <<>>, !.inStore.shape = FALSE]]
        ELSE [st |-> st1, cl |-> cl1]

RECURSIVE onUpAll(_, _)
onUpAll(sc, listeners) ==
    IF listeners = <<>> THEN sc
    ELSE onUpAll(onUp(sc), Tail(listeners))

\* pointerup: every registered onUp runs and removes its listeners
PointerUp ==
    /\ closure.listeners # <<>>
    /\ LET sc == onUpAll([st |-> state, cl |-> closure], closure.listeners)
       IN  /\ state' = sc.st
           /\ closure' = scheduleSessionSave(sc.st,
                                             [sc.cl EXCEPT !.listeners = <<>>])
    /\ UNCHANGED <<xf, heap, loadTask, reorderTask, exportTask, resumeTask, ui>>
    /\ Tracked(origin)

\* a dblclick handler that keeps the preview point as the last point
finalizeDraftWithPreview(st) ==
    IF /\ st.activeTool = "shapes"
       /\ st.shapeDraft # <<>>
       /\ IsMultiClick(st.shapeDraft[1].shapeType)
       /\ Len(st.shapeDraft[1].geometry.points) >= 3
    THEN [st EXCEPT
             !.shapeAnnotations =
                 Append(@, [st.shapeDraft[1] EXCEPT
                               !.geometry.points =
                                   @ \o st.shapeDraft[1].previewPoint,
                               !.previewPoint = <<>>]),
             !.shapeDraft = <<>>]
    ELSE st

\* what the dblclick handler makes of the state: a polygon or cloud draft
\* of three points or more is finalized, else nothing is done
finalizeDraft(st) ==
    IF /\ st.activeTool = "shapes"
       /\ st.shapeDraft # <<>>
       /\ IsMultiClick(st.shapeDraft[1].shapeType)
       /\ Len(st.shapeDraft[1].geometry.points) >= 3
    THEN [st EXCEPT
             !.shapeAnnotations =
                 Append(@, [st.shapeDraft[1] EXCEPT !.previewPoint = <<>>]),
             !.shapeDraft = <<>>]
    ELSE st

\* dblclick on the overlay
DoubleClick ==
    /\ finalizeDraft(state) # state
    /\ state' = finalizeDraft(state)
    /\ closure' = scheduleSessionSave(state',
                                      [closure EXCEPT !.inStore.shape = FALSE])
    /\ UNCHANGED <<xf, origin, heap, loadTask, reorderTask, exportTask,
                   resumeTask, ui>>

(***************************************************************************)
(* Moving and resizing a placed annotation (app.js 1190-1278, 1438-1550,   *)
(* 1552-1831).  closure.drag holds the variables the listeners of the      *)
(* gesture in progress close over: the annotation object (its collection   *)
(* and id, and whether the store still holds that object), the geometry    *)
(* and the overlay bounds measured at pointerdown.  One annotation is      *)
(* dragged at a time.                                                      *)
(***************************************************************************)
Draggable ==
    {"imageAnnotations", "textAnnotations", "signatureAnnotations",
     "commentAnnotations", "stampAnnotations"}

\* the least width and height a resize leaves
MinSize(collection) ==
    CASE collection = "imageAnnotations" -> [width |-> 24, height |-> 24]
      [] collection = "textAnnotations" -> [width |-> 60, height |-> 24]
      [] collection = "signatureAnnotations" -> [width |-> 80, height |-> 40]
      [] collection = "commentAnnotations" -> [width |-> 120, height |-> 60]
      [] OTHER -> [width |-> 120, height |-> 40]

\* pointerdown on the annotation at `index` of a collection (startMove), or
\* on its resize handle (startResize), while the overlay measures `bounds`
DragStart(collection, index, kind, bounds) ==
    /\ closure.drag = <<>>
    /\ collection \in Draggable
    /\ kind \in {"move", "resize"}
    /\ index \in 1 .. Len(state[collection])
    /\ state[collection][index].pageNumber = state.currentPage
    /\ LET annotation == state[collection][index]
       IN  closure' = [closure EXCEPT !.drag =
               <<[kind |-> kind, collection |-> collection, id |-> annotation.id,
                  originA |-> IF kind = "move" THEN annotation.x
                              ELSE annotation.width,
                  originB |-> IF kind = "move" THEN annotation.y
                              ELSE annotation.height,
                  bounds |-> bounds, attached |-> TRUE]>>]
    /\ UNCHANGED <<xf, origin, state, heap, loadTask, reorderTask, exportTask,
                   resumeTask, ui>>

\* onMove of startMove and of startResize on the annotation object
Dragged(annotation, drag, dx, dy) ==
    IF drag.kind = "move"
    THEN [annotation EXCEPT
             !.x = clamp(drag.originA + dx, 0, drag.bounds.width - annotation.width),
             !.y = clamp(drag.originB + dy, 0, drag.bounds.height - annotation.height)]
    ELSE [annotation EXCEPT
             !.width = clamp(drag.originA + dx, MinSize(drag.collection).width,
                             drag.bounds.width - annotation.x),
             !.height = clamp(drag.originB + dy, MinSize(drag.collection).height,
                              drag.bounds.height - annotation.y)]

\* pointermove on the window, the pointer being (dx, dy) from where it went
\* down
DragMove(dx, dy) ==
    /\ closure.drag # <<>>
    /\ LET drag == closure.drag[1]
       IN  state' = IF drag.attached
                    THEN [state EXCEPT ![drag.collection] =
                             [i \in 1 .. Len(@) |->
                                 IF @[i].id = drag.id
                                 THEN Dragged(@[i], drag, dx, dy)
                                 ELSE @[i]]]
                    ELSE state
    /\ UNCHANGED <<xf, origin, heap, closure, loadTask, reorderTask, exportTask,
                   resumeTask, ui>>

\* pointerup on the window: the listeners go and the session is saved
DragEnd ==
    /\ closure.drag # <<>>
    /\ closure' = scheduleSessionSave(state, [closure EXCEPT !.drag = <<>>])
    /\ UNCHANGED <<xf, origin, state, heap, loadTask, reorderTask, exportTask,
                   resumeTask, ui>>

(***************************************************************************)
(* Image assets: the asset input (app.js 2946-2981) and the drop of an     *)
(* asset on the overlay (app.js 2841-2891).                                *)
(***************************************************************************)
AssetIdsOf(assets) == {assets[i].id : i \in 1 .. Len(assets)}

SessionAssetIds(entries) ==
    UNION {{entries[i].annotations[j].item.assetId :
                j \in {n \in 1 .. Len(entries[i].annotations) :
                           entries[i].annotations[n].type = "image"}} :
           i \in 1 .. Len(entries)}

\* asset ids in use: createId never returns an id that is still referred to
UsedAssetIds(st, cl, rt, rs) ==
    AssetIdsOf(st.imageAssets) \cup AssetIdsOf(rt.assets)
        \cup {st.imageAnnotations[i].assetId : i \in 1 .. Len(st.imageAnnotations)}
        \cup SessionAssetIds(st.sessionEntries)
        \cup SessionAssetIds(cl.pendingSession) \cup SessionAssetIds(rs.session)

FreeAssetIds == AssetIds \ UsedAssetIds(state, closure, reorderTask, resumeTask)

createAssetId == CHOOSE id \in FreeAssetIds : \A other \in FreeAssetIds : id <= other

\* an image is picked in the asset input
AddAsset(file) ==
    /\ FreeAssetIds # {}
    /\ state' = [state EXCEPT !.imageAssets =
                    Append(@, [id |-> createAssetId, name |-> file.name,
                               imageData |-> file.bytes,
                               naturalWidth |-> file.width,
                               naturalHeight |-> file.height,
                               previewUrl |-> createObjectURL(file)])]
    /\ ui' = setStatus(ui, "Image assets ready. Drag onto the page.", FALSE)
    /\ UNCHANGED <<xf, origin, heap, closure, loadTask, reorderTask, exportTask,
                   resumeTask>>

\* the annotation the drop handler builds: the image at its natural size,
\* or as wide as three tenths of the overlay (the images drawn have sizes
\* at which the quotients are whole)
DroppedImage(id, asset, page, point, bounds) ==
    LET natural == 10 * asset.naturalWidth <= 3 * bounds.width
        width == IF natural THEN asset.naturalWidth
                 ELSE (3 * bounds.width) \div 10
        height == IF natural THEN asset.naturalHeight
                  ELSE (asset.naturalHeight * 3 * bounds.width)
                           \div (10 * asset.naturalWidth)
    IN  [id |-> id, assetId |-> asset.id, pageNumber |-> page,
         x |-> clamp(point.x - (width \div 2), 0, bounds.width - width),
         y |-> clamp(point.y - (height \div 2), 0, bounds.height - height),
         width |-> width, height |-> height,
         overlayWidth |-> bounds.width, overlayHeight |-> bounds.height]

\* the asset `assetId` is dropped on the overlay at `point`
DropAsset(assetId, point, bounds) ==
    /\ LET found == SelectSeq(state.imageAssets, LAMBDA item : item.id = assetId)
       IN  IF state.currentBytes = 0
           THEN /\ ui' = setStatus(ui, "Load a PDF before placing images.", TRUE)
                /\ UNCHANGED <<state, closure, origin>>
           ELSE IF found = <<>>
           THEN /\ ui' = setStatus(ui, "Image asset not found.", TRUE)
                /\ UNCHANGED <<state, closure, origin>>
           ELSE IF bounds.width = 0 \/ bounds.height = 0
           THEN /\ ui' = setStatus(ui, "Overlay not ready yet. Try again.", TRUE)
                /\ UNCHANGED <<state, closure, origin>>
           ELSE /\ CanCreateId
                /\ LET annotation == DroppedImage(createId, found[1],
                                                  state.currentPage, point, bounds)
                   IN  /\ state' = [state EXCEPT !.imageAnnotations =
                                                     Append(@, annotation)]
                       /\ origin' = [origin EXCEPT ![annotation.id] = state.pdfDoc]
                /\ closure' = scheduleSessionSave(state', closure)
                /\ ui' = setStatus(ui, "Image placed on page.", FALSE)
    /\ UNCHANGED <<xf, heap, loadTask, reorderTask, exportTask, resumeTask>>

(***************************************************************************)
(* The renders the viewer's buttons await (app.js 860-885, 2899-2928,      *)
(* 3603-3633).  Previous, Next and the rotate buttons assign to the state  *)
(* and await refreshViewer, which awaits renderPageToCanvas for the page   *)
(* and rotation read before the await.  Nothing orders the renders in      *)
(* flight: each ends when pdf.js resolves its promise.                     *)
(***************************************************************************)
\* Previous and Next, the render they await being followed
NavigateRendering(direction) ==
    /\ Len(ui.renders) < MaxRenders
    /\ state' = navigate(state, direction)
    /\ state' # state
    /\ ui' = startRender(ui, "viewer", state')
    /\ UNCHANGED <<xf, origin, heap, closure, loadTask, reorderTask, exportTask,
                   resumeTask>>

\* Rotate Left and Rotate Right, the render they await being followed
RotateRendering(degrees) ==
    /\ Len(ui.renders) < MaxRenders
    /\ state' = refreshViewerHead(
                    [state EXCEPT
                        !.pageProperties.rotations[state.currentPage] =
                            (@ + degrees + 360) % 360])
    /\ ui' = startRender(updatePagePropertiesUi(ui, state'), "viewer", state')
    /\ UNCHANGED <<xf, origin, heap, closure, loadTask, reorderTask, exportTask,
                   resumeTask>>

\* a render begun by a button ends and its refreshViewer goes on
RenderEnds(index) ==
    /\ index \in 1 .. Len(ui.renders)
    /\ ui.renders[index].by = "viewer"
    /\ ui' = finishRender(ui, index, state)
    /\ UNCHANGED <<xf, origin, state, heap, closure, loadTask, reorderTask,
                   exportTask, resumeTask>>
(***************************************************************************)
(* Text boxes: the editable region, its spans and the style controls       *)
(* (app.js 203-311, 1438-1550, 3061-3137).  The editable region is the     *)
(* list of its child nodes; a node has a name ("#text", "BR", "SPAN",      *)
(* "DIV"), the text of a text node, the inline style of an element and the *)
(* child nodes of an element.                                              *)
(***************************************************************************)
\* the inline style of an element that sets nothing
NoStyle ==
    [fontWeight |-> "", fontStyle |-> "", textDecorationLine |-> "",
     fontSize |-> 0, color |-> ""]

TextNode(text) ==
    [nodeName |-> "#text", text |-> text, style |-> NoStyle, childNodes |-> <<>>]

Br == [nodeName |-> "BR", text |-> "", style |-> NoStyle, childNodes |-> <<>>]

Element(nodeName, style, childNodes) ==
    [nodeName |-> nodeName, text |-> "", style |-> style,
     childNodes |-> childNodes]

\* Node.textContent of a list of nodes: the texts of the text nodes in
\* document order
RECURSIVE textContent(_)
textContent(nodes) ==
    IF nodes = <<>> THEN ""
    ELSE LET node == Head(nodes)
         IN  (IF node.nodeName = "#text" THEN node.text
              ELSE textContent(node.childNodes)) \o textContent(Tail(nodes))

\* pushSpan: an empty text makes no span
pushSpan(text, styles) == IF text = "" THEN <<>> ELSE <<Span(text, styles)>>

\* the style an element hands to its children
nextStyle(node, currentStyle) ==
    [bold |-> IF node.style.fontWeight = "bold" THEN TRUE ELSE currentStyle.bold,
     italic |-> IF node.style.fontStyle = "italic" THEN TRUE
                ELSE currentStyle.italic,
     underline |-> IF node.style.textDecorationLine = "underline" THEN TRUE
                   ELSE currentStyle.underline,
     fontSize |-> IF node.style.fontSize # 0 THEN node.style.fontSize
                  ELSE currentStyle.fontSize,
     color |-> IF node.style.color # "" THEN node.style.color
               ELSE currentStyle.color]

\* walk, over a list of sibling nodes: a text node gives its text, a BR a
\* newline, an element what its children give, and a DIV a newline after
RECURSIVE walk(_, _)
walk(nodes, currentStyle) ==
    IF nodes = <<>> THEN <<>>
    ELSE LET node == Head(nodes)
             spans ==
                 IF node.nodeName = "#text" THEN pushSpan(node.text, currentStyle)
                 ELSE IF node.nodeName = "BR" THEN pushSpan("\n", currentStyle)
                 ELSE walk(node.childNodes, nextStyle(node, currentStyle))
                          \o (IF node.nodeName = "DIV"
                              THEN pushSpan("\n", currentStyle) ELSE <<>>)
         IN  spans \o walk(Tail(nodes), currentStyle)

\* a serializer that returns the spans it finds and nothing else
serializeTextSpansBare(contentEl, defaults) == walk(contentEl, defaults)

serializeTextSpans(contentEl, defaults) ==
    LET spans == walk(contentEl, defaults)
    IN  IF spans # <<>> THEN spans ELSE <<Span("", defaults)>>

\* getAnnotationBaseStyle: the style of the first span, the text defaults
\* when there is no span
getAnnotationBaseStyle(annotation, st) ==
    IF annotation.spans # <<>>
    THEN [k \in DOMAIN DefaultTextStyle |-> annotation.spans[1][k]]
    ELSE st.textDefaults

\* a style as the controls hand it to applyTextStyleChange: a field that is
\* not given is <<>>, or "" for the color
StyleOf(bold, fontSize) ==
    [bold |-> bold, italic |-> <<>>, underline |-> <<>>, fontSize |-> fontSize,
     color |-> ""]

\* applyToSpan, which is also how the text defaults take a style
applyToSpan(span, style) ==
    [span EXCEPT !.bold = IF style.bold # <<>> THEN style.bold[1] ELSE @,
                 !.italic = IF style.italic # <<>> THEN style.italic[1] ELSE @,
                 !.underline = IF style.underline # <<>> THEN style.underline[1]
                               ELSE @,
                 !.fontSize = IF style.fontSize # <<>> THEN style.fontSize[1]
                              ELSE @,
                 !.color = IF style.color # "" THEN style.color ELSE @]

\* applyStyleToSelection for a selection of the child nodes `from` to `to`
\* of the region: they are put in a new span element that has the style
applyStyleToSelection(style, contentEl, from, to) ==
    LET span == Element("SPAN",
                    [fontWeight |-> IF style.bold = <<>> THEN ""
                                    ELSE IF style.bold[1] THEN "bold" ELSE "normal",
                     fontStyle |-> IF style.italic = <<>> THEN ""
                                   ELSE IF style.italic[1] THEN "italic"
                                   ELSE "normal",
                     textDecorationLine |->
                         IF style.underline = <<>> THEN ""
                         ELSE IF style.underline[1] THEN "underline" ELSE "none",
                     fontSize |-> IF style.fontSize = <<>> THEN 0
                                  ELSE style.fontSize[1],
                     color |-> style.color],
                    SubSeq(contentEl, from, to))
    IN  SubSeq(contentEl, 1, from - 1) \o <<span>>
            \o SubSeq(contentEl, to + 1, Len(contentEl))

\* where the text box with the id `id` is in the store, 0 when nowhere
TextIndex(st, id) ==
    IF \E i \in 1 .. Len(st.textAnnotations) : st.textAnnotations[i].id = id
    THEN CHOOSE i \in 1 .. Len(st.textAnnotations) : st.textAnnotations[i].id = id
    ELSE 0

\* the input handler of the box at `index`: text and spans are read from
\* the editable region
textInput(st, index, contentEl) ==
    LET annotation == st.textAnnotations[index]
        baseStyle == getAnnotationBaseStyle(annotation, st)
    IN  [st EXCEPT !.textAnnotations[index] =
            [annotation EXCEPT !.text = textContent(contentEl),
                               !.spans = serializeTextSpans(contentEl, baseStyle)]]

\* the user clicks into the text box at `index`, shown on the page, and
\* edits it: focusin selects it, and the input handler finds the region to
\* be `contentEl`
TextInput(index, contentEl) ==
    /\ state.activeTool = "text"
    /\ index \in 1 .. Len(state.textAnnotations)
    /\ state.textAnnotations[index].pageNumber = state.currentPage
    /\ state' = textInput([state EXCEPT !.selectedTextId =
                                            state.textAnnotations[index].id],
                          index, contentEl)
    /\ closure' = scheduleSessionSave(state', closure)
    /\ UNCHANGED <<xf, origin, heap, loadTask, reorderTask, exportTask,
                   resumeTask, ui>>

\* applyTextStyleChange: with no box selected the text defaults take the
\* style; with a selection in the region `contentEl` of the selected box
\* (`selection` is <<from, to>>, no selection <<>>) the selection is styled
\* and text and spans are read from the region; else every span of the box
\* takes the style
applyTextStyleChange(st, style, contentEl, selection) ==
    LET index == TextIndex(st, st.selectedTextId)
    IN  IF index = 0
        THEN [st EXCEPT !.textDefaults = applyToSpan(@, style)]
        ELSE IF selection # <<>>
        THEN textInput(st, index,
                       applyStyleToSelection(style, contentEl, selection[1],
                                             selection[2]))
        ELSE [st EXCEPT !.textAnnotations[index].spans =
                 LET spans == IF @ = <<>>
                              THEN <<Span(st.textAnnotations[index].text,
                                          getAnnotationBaseStyle(
                                              st.textAnnotations[index], st))>>
                              ELSE @
                 IN  [i \in 1 .. Len(spans) |-> applyToSpan(spans[i], style)]]

\* a style control is used while the region of the selected box is
\* `contentEl` and `selection` is selected in it
TextStyle(style, contentEl, selection) ==
    /\ selection # <<>> =>
           /\ TextIndex(state, state.selectedTextId) # 0
           /\ 1 <= selection[1] /\ selection[1] <= selection[2]
           /\ selection[2] <= Len(contentEl)
    /\ state' = applyTextStyleChange(state, style, contentEl, selection)
    /\ state' # state
    /\ closure' = IF TextIndex(state, state.selectedTextId) = 0 THEN closure
                  ELSE scheduleSessionSave(state', closure)
    /\ UNCHANGED <<xf, origin, heap, loadTask, reorderTask, exportTask,
                   resumeTask, ui>>

(***************************************************************************)
(* Images in the export and on the overlay (pdfService.js 249-257 and      *)
(* 308-364, app.js 1155-1188).  What applyImageAnnotations returns is      *)
(* told by the images it has drawn, in order, or by the error it threw.    *)
(***************************************************************************)
\* detectImageType: PNG or JPEG by the first bytes, else nothing
detectImageType(imageData) ==
    CASE imageData = "P" -> "png"
      [] imageData = "J" -> "jpg"
      [] OTHER -> ""

\* assetMap.get: the Map built from the assets keeps the last asset of an
\* id; none is <<>>
assetMapGet(assets, assetId) ==
    LET found == SelectSeq(assets, LAMBDA asset : asset.id = assetId)
    IN  IF found = <<>> THEN <<>> ELSE <<found[Len(found)]>>

\* the loop of applyImageAnnotations over the annotations left, `drawn`
\* being the images drawn so far; `strict` makes a missing asset an error
RECURSIVE drawImages(_, _, _, _)
drawImages(assets, annotations, drawn, strict) ==
    IF annotations = <<>> THEN [error |-> "", drawn |-> drawn]
    ELSE LET annotation == Head(annotations)
             asset == assetMapGet(assets, annotation.assetId)
         IN  IF asset = <<>>
             THEN IF strict
                  THEN [error |-> "Image asset not found.", drawn |-> <<>>]
                  ELSE drawImages(assets, Tail(annotations), drawn, strict)
             ELSE IF detectImageType(asset[1].imageData) = ""
             THEN [error |-> "Only PNG and JPEG images are supported.",
                   drawn |-> <<>>]
             ELSE IF annotation.overlayWidth = 0 \/ annotation.overlayHeight = 0
             THEN [error |-> "Missing overlay size for image placement.",
                   drawn |-> <<>>]
             ELSE drawImages(assets, Tail(annotations),
                             Append(drawn, annotation.id), strict)

\* an export of images that throws when an asset is missing
applyImageAnnotationsStrict(assets, annotations) ==
    drawImages(assets, annotations, <<>>, TRUE)

applyImageAnnotations(assets, annotations) ==
    drawImages(assets, annotations, <<>>, FALSE)

\* renderAnnotations: the image elements the overlay gets, one for every
\* image annotation of the page shown whose asset state.imageAssets.find
\* finds
renderImageAnnotations(st) ==
    LET shown == SelectSeq(st.imageAnnotations,
                     LAMBDA annotation :
                         /\ annotation.pageNumber = st.currentPage
                         /\ \E i \in 1 .. Len(st.imageAssets) :
                                st.imageAssets[i].id = annotation.assetId)
    IN  [i \in 1 .. Len(shown) |-> shown[i].id]

\* a call of applyImageAnnotations alone
ApplyImagesCall ==
    /\ xf.pc = "images"
    /\ xf' = [xf EXCEPT !.pc = "exported",
                        !.result = applyImageAnnotations(xf.assets, xf.annotations)]
    /\ UNCHANGED appVars

\* a call of renderAnnotations on a state that has the assets and the
\* image annotations and shows page 1
RenderImagesCall ==
    /\ xf.pc = "exported"
    /\ xf' = [xf EXCEPT !.pc = "rendered",
                        !.rendered = renderImageAnnotations(
                            [InitialState EXCEPT
                                !.imageAssets = xf.assets,
                                !.imageAnnotations = xf.annotations])]
    /\ UNCHANGED appVars

(***************************************************************************)
(* The split pane: parsePageGroups reads the text typed in the "Pages"     *)
(* field.  A text is a sequence of characters; split, trim and parseInt    *)
(* are computed character by character as JavaScript computes them.        *)
(***************************************************************************)
Digits == {"0", "1", "2", "3", "4", "5", "6", "7", "8", "9"}

DigitValue(char) ==
    CASE char = "0" -> 0 [] char = "1" -> 1 [] char = "2" -> 2
      [] char = "3" -> 3 [] char = "4" -> 4 [] char = "5" -> 5
      [] char = "6" -> 6 [] char = "7" -> 7 [] char = "8" -> 8
      [] char = "9" -> 9

\* String.prototype.split with a one-character separator
RECURSIVE split(_, _)
split(chars, separator) ==
    IF \A i \in 1 .. Len(chars) : chars[i] # separator
    THEN <<chars>>
    ELSE LET at == CHOOSE i \in 1 .. Len(chars) :
                       /\ chars[i] = separator
                       /\ \A j \in 1 .. i - 1 : chars[j] # separator
         IN  <<SubSeq(chars, 1, at - 1)>>
                 \o split(SubSeq(chars, at + 1, Len(chars)), separator)

RECURSIVE trimStart(_)
trimStart(chars) ==
    IF chars # <<>> /\ Head(chars) = " " THEN trimStart(Tail(chars)) ELSE chars

RECURSIVE trimEnd(_)
trimEnd(chars) ==
    IF chars # <<>> /\ chars[Len(chars)] = " "
    THEN trimEnd(SubSeq(chars, 1, Len(chars) - 1))
    ELSE chars

trim(chars) == trimEnd(trimStart(chars))

NaN == -1

\* value of the longest prefix of digits, read in base 10
RECURSIVE digitsPrefix(_, _)
digitsPrefix(chars, value) ==
    IF chars # <<>> /\ Head(chars) \in Digits
    THEN digitsPrefix(Tail(chars), 10 * value + DigitValue(Head(chars)))
    ELSE value

\* Number.parseInt(value, 10) on a text without a sign: leading white space
\* is skipped, the digits that follow are read and whatever comes after
\* them is ignored; NaN when no digit begins the text
parseInt(chars) ==
    LET rest == trimStart(chars)
    IN  IF rest # <<>> /\ Head(rest) \in Digits THEN digitsPrefix(rest, 0)
        ELSE NaN

null == 0

toNumber(value, pageCount) ==
    LET parsed == parseInt(value)
    IN  IF parsed = NaN \/ parsed < 1 \/ parsed > pageCount THEN null
        ELSE parsed

RECURSIVE filterBoolean(_)
filterBoolean(parts) ==
    IF parts = <<>> THEN <<>>
    ELSE IF Head(parts) = <<>> THEN filterBoolean(Tail(parts))
    ELSE <<Head(parts)>> \o filterBoolean(Tail(parts))

mapTrim(parts) == [i \in 1 .. Len(parts) |-> trim(parts[i])]

Includes(chars, char) == \E i \in 1 .. Len(chars) : chars[i] = char

pageRange(start, end) == [i \in 1 .. end - start + 1 |-> start + i - 1]

NoError == <<>>

\* the pages of one part, or the error it raises: a part with "-" is a
\* range made of its first two pieces, any other part is one page
partPages(part, pageCount) ==
    IF ~Includes(part, "-")
    THEN LET page == toNumber(part, pageCount)
         IN  IF page = null
             THEN [pages |-> <<>>, error |-> <<"Invalid page", part>>]
             ELSE [pages |-> <<page>>, error |-> NoError]
    ELSE LET pieces == mapTrim(split(part, "-"))
             start == toNumber(pieces[1], pageCount)
             end == toNumber(pieces[2], pageCount)
         IN  IF start = null \/ end = null \/ start > end
             THEN [pages |-> <<>>, error |-> <<"Invalid range", part>>]
             ELSE [pages |-> pageRange(start, end), error |-> NoError]

\* mode "range": one group for every part, the first invalid part returns
RECURSIVE rangeGroups(_, _, _)
rangeGroups(parts, pageCount, groups) ==
    IF parts = <<>> THEN [groups |-> groups, error |-> NoError]
    ELSE LET parsed == partPages(Head(parts), pageCount)
         IN  IF parsed.error # NoError
             THEN [groups |-> <<>>, error |-> parsed.error]
             ELSE rangeGroups(Tail(parts), pageCount, Append(groups, parsed.pages))

\* a Set keeps a value once, in the order of its first insertion
RECURSIVE addAll(_, _)
addAll(pages, added) ==
    IF added = <<>> THEN pages
    ELSE addAll(IF \E i \in 1 .. Len(pages) : pages[i] = Head(added)
                THEN pages ELSE Append(pages, Head(added)),
                Tail(added))

\* mode "pages": the pages of all parts in a single group
RECURSIVE pagesGroup(_, _, _)
pagesGroup(parts, pageCount, pages) ==
    IF parts = <<>> THEN [groups |-> <<pages>>, error |-> NoError]
    ELSE LET parsed == partPages(Head(parts), pageCount)
         IN  IF parsed.error # NoError
             THEN [groups |-> <<>>, error |-> parsed.error]
             ELSE pagesGroup(Tail(parts), pageCount, addAll(pages, parsed.pages))

parsePageGroups(input, mode, pageCount) ==
    LET parts == filterBoolean(mapTrim(split(input, ",")))
    IN  IF parts = <<>>
        THEN [groups |-> <<>>, error |-> <<"Enter at least one page or range.">>]
        ELSE IF mode = "range" THEN rangeGroups(parts, pageCount, <<>>)
        ELSE pagesGroup(parts, pageCount, <<>>)

\* the split pane before Split is clicked: the text and the mode chosen,
\* no status and no result rows
SplitPane(input, mode) ==
    [pc |-> "pane", input |-> input, mode |-> mode,
     parsed |-> [groups |-> <<>>, error |-> NoError],
     status |-> <<>>, isError |-> FALSE, results |-> <<>>]

\* the Split button: splitPdf returns one document for every group, shown
\* as one result row each
SplitClick ==
    /\ xf.pc \in {"pane", "refused", "parsed"}
    /\ IF state.currentBytes = 0
       THEN xf' = [xf EXCEPT !.pc = "refused",
                             !.status = <<"Load a PDF before splitting.">>,
                             !.isError = TRUE]
       ELSE LET parsed == parsePageGroups(xf.input, xf.mode, state.pageCount)
            IN  IF parsed.error # NoError
                THEN xf' = [xf EXCEPT !.pc = "parsed", !.parsed = parsed,
                                      !.status = parsed.error,
                                      !.isError = TRUE]
                ELSE xf' = [xf EXCEPT !.pc = "parsed", !.parsed = parsed,
                                      !.results = parsed.groups,
                                      !.status = <<"Split ready. Download each result.">>,
                                      !.isError = FALSE]
    /\ UNCHANGED appVars

(***************************************************************************)
(* Export (app.js 2158-2223).                                              *)
(*                                                                         *)
(* exportTask.pc names the stage whose promise the handler awaits,         *)
(* exportTask.inputBytes and exportTask.annotations the buffer and the     *)
(* list that stage was handed, exportTask.exportBytes the handler's        *)
(* accumulator.  A stage leaves its mark on the document it returns, so    *)
(* the marks of a document tell which stages it went through, in which     *)
(* order.                                                                  *)
(***************************************************************************)
ExportStages ==
    <<"highlights", "images", "text", "signatures", "draws", "shapes">>

StageIndex(stage) ==
    IF stage = "pageProperties" THEN 0
    ELSE CHOOSE k \in 1 .. Len(ExportStages) : ExportStages[k] = stage

\* comments and stamps are exported as text
AsExportText(annotation) ==
    [id |-> annotation.id, pageNumber |-> annotation.pageNumber,
     x |-> annotation.x, y |-> annotation.y,
     width |-> annotation.width, height |-> annotation.height,
     text |-> annotation.text,
     overlayWidth |-> annotation.overlayWidth,
     overlayHeight |-> annotation.overlayHeight]

\* an export text list that leaves the comments out while they are hidden
buildExportTextAnnotationsShown(st) ==
    st.textAnnotations
        \o (IF st.commentsVisible
            THEN [i \in 1 .. Len(st.commentAnnotations) |->
                     AsExportText(st.commentAnnotations[i])]
            ELSE <<>>)
        \o [i \in 1 .. Len(st.stampAnnotations) |->
               AsExportText(st.stampAnnotations[i])]

buildExportTextAnnotations(st) ==
    st.textAnnotations
        \o [i \in 1 .. Len(st.commentAnnotations) |->
               AsExportText(st.commentAnnotations[i])]
        \o [i \in 1 .. Len(st.stampAnnotations) |->
               AsExportText(st.stampAnnotations[i])]

\* the annotations a stage exports, read from the state when the stage is
\* reached
exportSource(st, stage) ==
    CASE stage = "highlights" -> st.highlightAnnotations
      [] stage = "images" -> st.imageAnnotations
      [] stage = "text" -> buildExportTextAnnotations(st)
      [] stage = "signatures" -> st.signatureAnnotations
      [] stage = "draws" -> st.drawAnnotations
      [] OTHER -> st.shapeAnnotations

\* the list the stage is given
exportAnnotations(st, exportPageOrder, stage) ==
    remapAnnotationsForExport(exportSource(st, stage), exportPageOrder)

\* `if (exportHighlights.length > 0)` and its like
stageRuns(annotations) == Len(annotations) > 0

\* the first stage at or after position k that runs; Len(ExportStages) + 1
\* when none does
RECURSIVE nextStage(_, _, _)
nextStage(st, exportPageOrder, k) ==
    IF k > Len(ExportStages) THEN k
    ELSE IF stageRuns(exportAnnotations(st, exportPageOrder, ExportStages[k]))
         THEN k
         ELSE nextStage(st, exportPageOrder, k + 1)

\* the document applyPageProperties returns: the pages of the export order
applyPageProperties(content, exportPageOrder) ==
    [content EXCEPT
        !.pages = [i \in 1 .. Len(exportPageOrder) |-> @[exportPageOrder[i]]],
        !.marks = Append(@, [stage |-> "pageProperties",
                             n |-> Len(exportPageOrder)])]

\* the document an apply...Annotations stage saves
applyAnnotations(content, stage, annotations) ==
    [content EXCEPT !.marks = Append(@, [stage |-> stage,
                                         n |-> Len(annotations)])]

\* a stage that saves the document into the buffer it was handed
saveInPlace(h, bytes) == bytes

\* the buffer a stage of pdfService.js returns: it loads a copy of the bytes
\* it was handed and returns the array pdfDoc.save() allocates
saveTarget(h, bytes) == NewBuf(h)

\* the stages whose code is not among the sources; they are taken to
\* return a new buffer and to leave the one they were handed alone
UnseenStages == {"pageProperties", "signatures", "shapes"}

stageTarget(h, stage, bytes) ==
    IF stage \in UnseenStages THEN NewBuf(h) ELSE saveTarget(h, bytes)

\* the bytes a stage is handed are the accumulator of the handler
stageInputFromState(st, et) == st.currentBytes

stageInput(st, et) == et.exportBytes

\* the Export PDF button
ExportClick ==
    /\ exportTask.pc = "idle"
    /\ IF state.currentBytes = 0
       THEN /\ ui' = setStatus(ui, "Load a PDF before exporting.", TRUE)
            /\ exportTask' = exportTask
       ELSE LET exportPageOrder == buildExportPageOrder(state)
            IN  IF Len(exportPageOrder) = 0
                THEN /\ ui' = setStatus(ui, "No visible pages to export.", TRUE)
                     /\ exportTask' = exportTask
                ELSE /\ ui' = ui
                     /\ exportTask' =
                            [pc |-> "pageProperties",
                             exportPageOrder |-> exportPageOrder,
                             inputBytes |-> state.currentBytes,
                             annotations |-> <<>>,
                             exportBytes |-> 0]
    /\ UNCHANGED <<xf, origin, state, closure, loadTask, reorderTask, resumeTask>>
    /\ Collected(heap)

\* the stage awaited returns; the handler goes on to the next stage that
\* runs, or to the download
ExportStageReturns ==
    /\ exportTask.pc # "idle"
    /\ FreeBufs(heap) # {}
    /\ UNCHANGED <<xf, origin, state, closure, loadTask, reorderTask, resumeTask>>
    /\ LET stage == exportTask.pc
           order == exportTask.exportPageOrder
           input == exportTask.inputBytes
           content ==
               IF stage = "pageProperties"
               THEN applyPageProperties(heap[input], order)
               ELSE applyAnnotations(heap[input], stage, exportTask.annotations)
           h1 == Store(heap, stageTarget(heap, stage, input), content)
           returned == [exportTask EXCEPT
                           !.exportBytes = stageTarget(heap, stage, input)]
           next == nextStage(state, order, StageIndex(stage) + 1)
       IN  /\ IF next > Len(ExportStages)
              THEN /\ ui' = setStatus(ui, "Export started.", FALSE)
                   /\ exportTask' = IdleExport
              ELSE /\ ui' = ui
                   /\ exportTask' =
                          [returned EXCEPT
                              !.pc = ExportStages[next],
                              !.inputBytes = stageInput(state, returned),
                              !.annotations =
                                  exportAnnotations(state, order,
                                                    ExportStages[next])]
           /\ Collected(h1)

\* the stage awaited throws: the handler's catch reports the failure
ExportStageThrows ==
    /\ exportTask.pc # "idle"
    /\ ui' = setStatus(ui, "Export failed", TRUE)
    /\ exportTask' = IdleExport
    /\ UNCHANGED <<xf, origin, state, closure, loadTask, reorderTask, resumeTask>>
    /\ Collected(heap)

(***************************************************************************)
(* Apply Reorder (app.js 3212-3331) and reorderPdf (pdfService.js 230).    *)
(***************************************************************************)
\* a page mapping that reads the order the wrong way round
pageMappingInverse(pageOrder, oldPageNumber) ==
    IF oldPageNumber \in 1 .. Len(pageOrder)
    THEN <<pageOrder[oldPageNumber]>>
    ELSE <<>>

\* pageMapping.get(oldPageNumber): the last index + 1 at which the order
\* holds the page, none when it does not hold it
pageMapping(pageOrder, oldPageNumber) ==
    LET at == {i \in 1 .. Len(pageOrder) : pageOrder[i] = oldPageNumber}
    IN  IF at = {} THEN <<>>
        ELSE <<CHOOSE i \in at : \A j \in at : j <= i>>

remapPage(pageOrder, annotation) ==
    LET mapped == pageMapping(pageOrder, annotation.pageNumber)
    IN  [annotation EXCEPT
            !.pageNumber = IF mapped = <<>> THEN @ ELSE mapped[1]]

remapCollection(pageOrder, annotations) ==
    [i \in 1 .. Len(annotations) |-> remapPage(pageOrder, annotations[i])]

\* the old pages that are mapped to the new page
Preimage(pageOrder, newPage) ==
    {p \in PageIds : pageMapping(pageOrder, p) = <<newPage>>}

remapSet(pageOrder, pages) ==
    {newPage \in PageIds : Preimage(pageOrder, newPage) \cap pages # {}}

\* an entry of rotations or duplicates; when several old pages are mapped
\* to one new page the entry written last, that of the largest key, stays
remapEntries(pageOrder, entries) ==
    [newPage \in PageIds |->
        LET from == {p \in Preimage(pageOrder, newPage) : entries[p] # 0}
        IN  IF from = {} THEN 0
            ELSE entries[CHOOSE p \in from : \A q \in from : q <= p]]

remapPageProperties(pageOrder, properties) ==
    [rotations  |-> remapEntries(pageOrder, properties.rotations),
     hidden     |-> remapSet(pageOrder, properties.hidden),
     deleted    |-> remapSet(pageOrder, properties.deleted),
     duplicates |-> remapEntries(pageOrder, properties.duplicates)]

\* a reorder that returns the document as it was
reorderPdfUnmoved(content, pageOrder) == content

reorderPdf(content, pageOrder) ==
    [content EXCEPT !.pages = [i \in 1 .. Len(pageOrder) |-> @[pageOrder[i]]]]

\* the Apply Reorder button: the collections are remembered and remapped,
\* then the handler awaits reorderPdf
ReorderClick ==
    /\ reorderTask.pc = "idle"
    /\ IF state.currentBytes = 0 \/ Len(state.pageOrder) = 0
       THEN /\ ui' = setStatus(ui, "Load a PDF before reordering pages.", TRUE)
            /\ reorderTask' = reorderTask
       ELSE /\ ui' = ui
            /\ reorderTask' =
                   [pc |-> "reordering",
                    bytes |-> state.currentBytes,
                    workingBytes |-> 0,
                    pageOrder |-> state.pageOrder,
                    assets |-> state.imageAssets,
                    current |-> [k \in Collections |-> state[k]],
                    remapped |-> [k \in Collections |->
                                     remapCollection(state.pageOrder, state[k])],
                    currentProperties |-> state.pageProperties,
                    pageProperties |->
                        remapPageProperties(state.pageOrder, state.pageProperties)]
    /\ UNCHANGED <<xf, origin, state, closure, loadTask, exportTask, resumeTask>>
    /\ Collected(heap)

\* reorderPdf returns; loadPdfBytes copies the reordered bytes and awaits
\* loadPdfDocument
ReorderReordered ==
    /\ reorderTask.pc = "reordering"
    /\ FreeBufs(heap) # {}
    /\ LET workingBytes == NewBuf(heap)
           h1 == Store(heap, workingBytes,
                       reorderPdf(heap[reorderTask.bytes], reorderTask.pageOrder))
       IN  /\ reorderTask' = [reorderTask EXCEPT !.pc = "parsing", !.bytes = 0,
                                                 !.workingBytes = workingBytes]
           /\ UNCHANGED <<xf, origin, state, closure, loadTask, exportTask,
                          resumeTask, ui>>
           /\ Collected(h1)

\* reorderPdf throws: nothing has been replaced
ReorderThrows ==
    /\ reorderTask.pc = "reordering"
    /\ ui' = setStatus(ui, "Failed to reorder pages", TRUE)
    /\ reorderTask' = IdleReorder
    /\ UNCHANGED <<xf, state, closure, loadTask, exportTask, resumeTask>>
    /\ Collected(heap)
    /\ Tracked(origin)

\* the reordered document is parsed: loadPdfBytes replaces the state
ReorderParsed ==
    /\ reorderTask.pc = "parsing"
    /\ FreeBufs(heap) # {}
    /\ LET originalBytes == NewBuf(heap)
           content == heap[reorderTask.workingBytes]
           h1 == Store(heap, originalBytes, content)
       IN  /\ state' = loadPdfBytesAssign(state, reorderTask.workingBytes,
                                          originalBytes, content, <<>>)
           /\ reorderTask' = [reorderTask EXCEPT !.pc = "rendering",
                                                 !.workingBytes = 0]
           /\ closure' = Detached(closure)
           /\ ui' = startRender(ui, "reorder", state')
           /\ UNCHANGED <<xf, loadTask, exportTask, resumeTask>>
           /\ Collected(h1)
           /\ Tracked(origin)

\* the render is done, refreshViewer having shown the page and the pane for
\* the state loadPdfBytes left: the remembered assets and the remapped
\* collections and page properties are put in place, and the handler
\* renders the assets, the ink layers and the annotations, not the pane
ReorderRendered ==
    /\ reorderTask.pc = "rendering"
    /\ state' = [[k \in DOMAIN state |->
                     IF k \in Collections THEN reorderTask.remapped[k]
                     ELSE state[k]]
                 EXCEPT !.imageAssets = reorderTask.assets,
                        !.pageProperties = reorderTask.pageProperties]
    /\ closure' = scheduleSessionSave(state',
                          [closure EXCEPT
                              !.inStore.draw = FALSE,
                              !.inStore.highlight = FALSE,
                              !.drag = [i \in 1 .. Len(@) |->
                                           [@[i] EXCEPT !.attached = FALSE]]])
    /\ ui' = setStatus(finishRender(ui, renderOf(ui, "reorder"), state),
                       "Reorder applied.", FALSE)
    /\ reorderTask' = IdleReorder
    /\ UNCHANGED <<xf, heap, loadTask, exportTask, resumeTask>>
    /\ Tracked(origin)

\* a call of reorderPdf alone
ReorderPdfCall ==
    /\ xf.pc = "order"
    /\ xf' = [xf EXCEPT !.pc = "reordered",
                        !.result = reorderPdf(xf.bytes, xf.pageOrder)]
    /\ UNCHANGED appVars

(***************************************************************************)
(* Recent documents: the session list and the resumeInput change handler   *)
(* (app.js 2045-2148).                                                     *)
(***************************************************************************)
\* "Open" on the entry at `index` of the session list
OpenSession(index) ==
    /\ index \in 1 .. Len(state.sessionEntries)
    /\ closure' = [closure EXCEPT !.pendingSession = <<state.sessionEntries[index]>>]
    /\ closure' # closure
    /\ UNCHANGED <<xf, origin, state, heap, loadTask, reorderTask, exportTask,
                   resumeTask, ui>>

\* "Remove" on the entry at `index` of the session list
RemoveSession(index) ==
    /\ index \in 1 .. Len(state.sessionEntries)
    /\ state' = [state EXCEPT !.sessionEntries =
                    SelectSeq(@, LAMBDA entry :
                                     entry.id # state.sessionEntries[index].id)]
    /\ ui' = setStatus(ui, "Removed from history.", FALSE)
    /\ UNCHANGED <<xf, heap, closure, loadTask, reorderTask, exportTask,
                   resumeTask>>
    /\ Tracked(origin)

\* "Clear History"
ClearHistory ==
    /\ state.sessionEntries # <<>>
    /\ state' = [state EXCEPT !.sessionEntries = <<>>]
    /\ ui' = setStatus(ui, "History cleared.", FALSE)
    /\ UNCHANGED <<xf, heap, closure, loadTask, reorderTask, exportTask,
                   resumeTask>>
    /\ Tracked(origin)

\* the "Remember recent documents" checkbox
ToggleHistory ==
    /\ state' = [state EXCEPT !.sessionHistoryEnabled = ~@]
    /\ UNCHANGED <<xf, origin, heap, closure, loadTask, reorderTask, exportTask,
                   resumeTask, ui>>

\* a comparison that takes any file for the session's
hashDiffersNever(hash, session) == FALSE

\* `hash !== pendingSession.fileHash`
hashDiffers(hash, session) == hash # session.fileHash

\* the user picks a file for the pending session; the handler awaits
\* readFileAsArrayBuffer
ResumeChange(file) ==
    /\ resumeTask.pc = "idle"
    /\ closure.pendingSession # <<>>
    /\ resumeTask' = [IdleResume EXCEPT !.pc = "reading", !.file = file]
    /\ UNCHANGED <<xf, origin, state, heap, closure, loadTask, reorderTask,
                   exportTask, ui>>

\* the file is read; the handler awaits hashBytes
ResumeRead ==
    /\ resumeTask.pc = "reading"
    /\ FreeBufs(heap) # {}
    /\ LET bytes == NewBuf(heap)
       IN  /\ resumeTask' = [resumeTask EXCEPT !.pc = "hashing", !.bytes = bytes]
           /\ UNCHANGED <<xf, origin, state, closure, loadTask, reorderTask,
                          exportTask, ui>>
           /\ Collected(Store(heap, bytes, resumeTask.file.bytes))

\* the hash is known.  A file that is not the session's is refused; else
\* the file name and hash are taken from the session and loadPdfBytes is
\* called with the session
ResumeHashed ==
    /\ resumeTask.pc = "hashing"
    /\ FreeBufs(heap) # {}
    /\ UNCHANGED <<xf, loadTask, reorderTask, exportTask>>
    /\ LET session == closure.pendingSession[1]
           content == heap[resumeTask.bytes]
           workingBytes == NewBuf(heap)
           named == [state EXCEPT !.currentFileName = session.fileName,
                                  !.currentFileHash = session.fileHash]
       IN  IF hashDiffers(hashBytes(content), session)
           THEN /\ ui' = setStatus(ui,
                             "Selected file does not match this session. Please reselect.",
                             TRUE)
                /\ closure' = [closure EXCEPT !.pendingSession = <<>>]
                /\ resumeTask' = IdleResume
                /\ state' = state
                /\ Collected(heap)
           ELSE IF ~isPdfBytes(content)
           THEN /\ ui' = setStatus(ui, "Session restored.", FALSE)
                /\ closure' = [closure EXCEPT !.pendingSession = <<>>]
                /\ resumeTask' = IdleResume
                /\ state' = named
                /\ Collected(heap)
           ELSE /\ ui' = ui
                /\ closure' = closure
                /\ resumeTask' = [resumeTask EXCEPT
                                     !.pc = "parsing", !.bytes = 0,
                                     !.workingBytes = workingBytes,
                                     !.session = <<session>>]
                /\ state' = named
                /\ Collected(Store(heap, workingBytes, content))
    /\ Tracked(origin)

\* the document is parsed: loadPdfBytes replaces the state, puts the
\* session's annotations in place and awaits the first render
ResumeParsed ==
    /\ resumeTask.pc = "parsing"
    /\ FreeBufs(heap) # {}
    /\ LET originalBytes == NewBuf(heap)
           content == heap[resumeTask.workingBytes]
           h1 == Store(heap, originalBytes, content)
       IN  /\ state' = loadPdfBytesAssign(state, resumeTask.workingBytes,
                                          originalBytes, content,
                                          <<resumeTask.session[1].annotations>>)
           /\ resumeTask' = [resumeTask EXCEPT !.pc = "rendering",
                                               !.workingBytes = 0]
           /\ closure' = Detached(closure)
           /\ ui' = startRender(ui, "resume", state')
           /\ UNCHANGED <<xf, loadTask, reorderTask, exportTask>>
           /\ Collected(h1)
           /\ Tracked(origin)

\* the render is done: "Session restored."; the pending session is dropped
ResumeRendered ==
    /\ resumeTask.pc = "rendering"
    /\ ui' = setStatus(finishRender(ui, renderOf(ui, "resume"), state),
                       "Session restored.", FALSE)
    /\ closure' = [closure EXCEPT !.pendingSession = <<>>]
    /\ resumeTask' = IdleResume
    /\ UNCHANGED <<xf, state, heap, loadTask, reorderTask, exportTask>>
    /\ Tracked(origin)

(***************************************************************************)
(* Specifications.                                                         *)
(***************************************************************************)
NoEntries == <<>>

NoProfile == <<>>

\* the coordinate transform alone, on every drawn argument
InitXform == XfInit /\ InitApp(FALSE, NoEntries, NoProfile)

NextXform == ConvertRect \/ ConvertPoint

SpecXform == InitXform /\ [][NextXform]_vars

SomeProfile == <<[name |-> "name", initials |-> "", fontId |-> "script"]>>

\* where the pointer is put down, and where it is dragged to
Corner == [x |-> 10, y |-> 20]

DragPoints == {[x |-> 11, y |-> 25], [x |-> 14, y |-> 25]}

\* no document has been opened yet
Unopened == state.currentBytes = 0 /\ loadTask.pc = "idle"

\* the page property projector: one document, every page property handler
\* while no export runs, and the export of the pages they leave
InitPages == XfIdle /\ InitApp(FALSE, NoEntries, NoProfile)

NextPages ==
    \/ Unopened /\ LoadChange(FileA)
    \/ LoadRead
    \/ LoadParsed
    \/ LoadRendered
    \/ \E direction \in {-1, 1} : Navigate(direction)
    \/ exportTask.pc = "idle" /\ HideToggle
    \/ exportTask.pc = "idle" /\ DeletePage
    \/ exportTask.pc = "idle" /\ RestorePage
    \/ exportTask.pc = "idle" /\ DuplicatePage
    \/ exportTask.pc = "idle" /\ RemoveDuplicate
    \/ ExportClick
    \/ ExportStageReturns

SpecPages == InitPages /\ [][NextPages]_vars

\* the export remap: one document, pages hidden, deleted and duplicated
\* while no export runs, text placements at any time
InitRemap == XfIdle /\ InitApp(FALSE, NoEntries, NoProfile)

NextRemap ==
    \/ Unopened /\ LoadChange(FileB)
    \/ LoadRead
    \/ LoadParsed
    \/ LoadRendered
    \/ \E direction \in {-1, 1} : Navigate(direction)
    \/ exportTask.pc = "idle" /\ HideToggle
    \/ exportTask.pc = "idle" /\ DeletePage
    \/ exportTask.pc = "idle" /\ DuplicatePage
    \/ SelectTool("text")
    \/ OverlayClick(Corner, OverlayReady)
    \/ ExportClick
    \/ ExportStageReturns

SpecRemap == InitRemap /\ [][NextRemap]_vars

\* the export pipeline: one document, pages hidden and duplicated while no
\* export runs, text and signature placements at any time
InitExport == XfIdle /\ InitApp(FALSE, NoEntries, SomeProfile)

NextExport ==
    \/ Unopened /\ LoadChange(FileB)
    \/ LoadRead
    \/ LoadParsed
    \/ LoadRendered
    \/ \E direction \in {-1, 1} : Navigate(direction)
    \/ exportTask.pc = "idle" /\ HideToggle
    \/ exportTask.pc = "idle" /\ DuplicatePage
    \/ \E toolId \in {"text", "signature"} : SelectTool(toolId)
    \/ OverlayClick(Corner, OverlayReady)
    \/ ExportClick
    \/ ExportStageReturns
    \/ ExportStageThrows

SpecExport == InitExport /\ [][NextExport]_vars

\* a document is open and its load has ended
Opened == state.currentBytes # 0 /\ loadTask.pc = "idle"

\* the document is open and Apply Reorder has not been pressed yet
Unordered ==
    /\ Opened
    /\ reorderTask.pc = "idle"
    /\ ui.status \notin {"Reorder applied.", "Failed to reorder pages"}

\* page reordering: one document of three pages; its page list, one page
\* property and the text tool are used until Apply Reorder is pressed, text
\* is placed before that and while the reorder runs
InitReorder == XfIdle /\ InitApp(FALSE, NoEntries, NoProfile)

NextReorder ==
    \/ Unopened /\ LoadChange(FileA)
    \/ LoadRead
    \/ LoadParsed
    \/ LoadRendered
    \/ \E index \in PageIds : Unordered /\ MoveUp(index)
    \/ \E index \in PageIds : Unordered /\ MoveDown(index)
    \/ \E direction \in {-1, 1} : Unordered /\ Navigate(direction)
    \/ Unordered /\ state.pageProperties = EmptyPageProperties /\ Rotate(90)
    \/ Unordered /\ state.pageProperties = EmptyPageProperties /\ HideToggle
    \/ Unordered /\ state.pageProperties = EmptyPageProperties /\ DeletePage
    \/ Unordered /\ state.pageProperties = EmptyPageProperties /\ DuplicatePage
    \/ Unordered /\ SelectTool("text")
    \/ (Unordered \/ reorderTask.pc # "idle") /\ OverlayClick(Corner, OverlayReady)
    \/ Unordered /\ ReorderClick
    \/ ReorderReordered
    \/ ReorderThrows
    \/ ReorderParsed
    \/ ReorderRendered

SpecReorder == InitReorder /\ [][NextReorder]_vars


\* the text annotation of a stored session
StoredText == PlacedAnnotation("text", MaxIds, 1, Corner, OverlayReady)

\* the session history that loadSessionHistory finds: one session of a.pdf
\* with a text annotation
StoredEntries ==
    <<SessionEntry(FileA.name, hashBytes(FileA.bytes),
                   [InitialState EXCEPT !.textAnnotations = <<StoredText>>])>>

MismatchStatus == "Selected file does not match this session. Please reselect."

\* no restore of a session has ended yet
Unrestored == ui.status \notin {"Session restored.", MismatchStatus}

\* session restore: recent documents are remembered and one session of
\* a.pdf is stored; b.pdf is opened and annotated, sessions are opened from
\* the list and a.pdf or b.pdf is picked, until one restore has ended
InitResume == XfIdle /\ InitApp(TRUE, StoredEntries, NoProfile)

NextResume ==
    \/ Unopened /\ LoadChange(FileB)
    \/ LoadRead
    \/ LoadParsed
    \/ LoadRendered
    \/ LoadHashed
    \/ LoadSaved
    \/ \E direction \in {-1, 1} : Opened /\ Unrestored /\ Navigate(direction)
    \/ Opened /\ Unrestored /\ SelectTool("text")
    \/ Opened /\ Unrestored /\ OverlayClick(Corner, OverlayReady)
    \/ SessionSaveFires
    \/ \E index \in 1 .. 2 : Unrestored /\ OpenSession(index)
    \/ \E file \in {FileA, FileB} : Unrestored /\ ResumeChange(file)
    \/ ResumeRead
    \/ ResumeHashed
    \/ ResumeParsed
    \/ ResumeRendered

SpecResume == InitResume /\ [][NextResume]_vars

\* pointer gestures: a.pdf is opened and then b.pdf; the highlight and the
\* shape tool are used on either, and the pointer goes down, moves and
\* comes up at any time, also while a load is in flight
InitGesture == XfIdle /\ InitApp(FALSE, NoEntries, NoProfile)

NextGesture ==
    \/ Unopened /\ LoadChange(FileA)
    \/ Opened /\ state.pdfDoc = <<FileA.bytes.pages>> /\ LoadChange(FileB)
    \/ LoadRead
    \/ LoadParsed
    \/ LoadRendered
    \/ \E toolId \in {"highlight", "shapes"} : SelectTool(toolId)
    \/ PointerDown(Corner, OverlayReady)
    \/ \E current \in DragPoints : PointerMove(current)
    \/ PointerUp

SpecGesture == InitGesture /\ [][NextGesture]_vars

\* the overlay after the window has been made smaller
OverlayResized == [width |-> 360, height |-> 480]

\* how far the pointer is from where it went down
DragDeltas == {[dx |-> 5, dy |-> 7], [dx |-> 400, dy |-> 500]}

\* the text annotation at `index` is where and as large as it was placed
Undragged(index) ==
    /\ index \in 1 .. Len(state.textAnnotations)
    /\ LET annotation == state.textAnnotations[index]
       IN  annotation = [PlacedAnnotation("text", annotation.id,
                                          annotation.pageNumber, Corner,
                                          OverlayReady)
                            EXCEPT !.overlayWidth = annotation.overlayWidth,
                                   !.overlayHeight = annotation.overlayHeight]

\* moving and resizing: b.pdf is opened, text is placed and each placed text
\* is moved or resized once, the overlay measuring one of two sizes
InitDrag == XfIdle /\ InitApp(FALSE, NoEntries, NoProfile)

NextDrag ==
    \/ Unopened /\ LoadChange(FileB)
    \/ LoadRead
    \/ LoadParsed
    \/ LoadRendered
    \/ Opened /\ SelectTool("text")
    \/ \E bounds \in {OverlayReady, OverlayResized} :
           Opened /\ OverlayClick(Corner, bounds)
    \/ \E index \in AnnIds, kind \in {"move", "resize"},
          bounds \in {OverlayReady, OverlayResized} :
           Undragged(index) /\ DragStart("textAnnotations", index, kind, bounds)
    \/ \E delta \in DragDeltas : DragMove(delta.dx, delta.dy)
    \/ DragEnd

SpecDrag == InitDrag /\ [][NextDrag]_vars

\* files that are no PDF: with the history on, b.pdf is opened and text is
\* placed on it, then a file that is no PDF is picked in the load input
Unrefused == ui.status \notin {"Only PDF files are supported.",
                               "Selected file is not a valid PDF."}

InitRefuse == XfIdle /\ InitApp(TRUE, NoEntries, NoProfile)

NextRefuse ==
    \/ Unopened /\ LoadChange(FileB)
    \/ \E file \in {FileC, FileT} : Opened /\ Unrefused /\ LoadChange(file)
    \/ LoadRead
    \/ LoadParsed
    \/ LoadRendered
    \/ LoadHashed
    \/ LoadSaved
    \/ \E direction \in {-1, 1} : Opened /\ Unrefused /\ Navigate(direction)
    \/ Opened /\ Unrefused /\ SelectTool("text")
    \/ Opened /\ Unrefused /\ OverlayClick(Corner, OverlayReady)
    \/ SessionSaveFires

SpecRefuse == InitRefuse /\ [][NextRefuse]_vars

\* comments: b.pdf is opened, comments and text are placed, the comments
\* are shown and hidden at any time, also during an export
InitComments == XfIdle /\ InitApp(FALSE, NoEntries, NoProfile)

NextComments ==
    \/ Unopened /\ LoadChange(FileB)
    \/ LoadRead
    \/ LoadParsed
    \/ LoadRendered
    \/ \E direction \in {-1, 1} : Navigate(direction)
    \/ \E toolId \in {"comment", "text"} : Opened /\ SelectTool(toolId)
    \/ Opened /\ OverlayClick(Corner, OverlayReady)
    \/ Opened /\ CommentToggle
    \/ Opened /\ ExportClick
    \/ ExportStageReturns

SpecComments == InitComments /\ [][NextComments]_vars

\* restoring a session: with the history on, b.pdf is opened, images are
\* added and dropped on the page and text is placed; the session is saved,
\* opened from the list and restored on b.pdf
InitRestore == XfIdle /\ InitApp(TRUE, NoEntries, NoProfile)

NextRestore ==
    \/ Unopened /\ LoadChange(FileB)
    \/ LoadRead
    \/ LoadParsed
    \/ LoadRendered
    \/ LoadHashed
    \/ LoadSaved
    \/ \E file \in {ImageP, ImageJ} : Opened /\ Unrestored /\ AddAsset(file)
    \/ \E assetId \in AssetIds :
           Opened /\ Unrestored /\ DropAsset(assetId, Corner, OverlayReady)
    \/ Opened /\ Unrestored /\ SelectTool("text")
    \/ Opened /\ Unrestored /\ OverlayClick(Corner, OverlayReady)
    \/ SessionSaveFires
    \/ Opened /\ Unrestored /\ OpenSession(1)
    \/ Unrestored /\ ResumeChange(FileB)
    \/ ResumeRead
    \/ ResumeHashed
    \/ ResumeParsed
    \/ ResumeRendered

SpecRestore == InitRestore /\ [][NextRestore]_vars

\* saving the session: with the history on, b.pdf is opened, text is placed
\* before and after Apply Reorder, and the timer of the save fires
InitSave == XfIdle /\ InitApp(TRUE, NoEntries, NoProfile)

NextSave ==
    \/ Unopened /\ LoadChange(FileB)
    \/ LoadRead
    \/ LoadParsed
    \/ LoadRendered
    \/ LoadHashed
    \/ LoadSaved
    \/ Opened /\ SelectTool("text")
    \/ Opened /\ OverlayClick(Corner, OverlayReady)
    \/ SessionSaveFires
    \/ \E index \in PageIds : Unordered /\ MoveDown(index)
    \/ Unordered /\ ReorderClick
    \/ ReorderReordered
    \/ ReorderThrows
    \/ ReorderParsed
    \/ ReorderRendered

SpecSave == InitSave /\ [][NextSave]_vars

\* reorderPdf alone: a.pdf or b.pdf and every order of at most MaxOrder
\* entries, each the number of a page of the file
PageOrders(content) ==
    UNION {[1 .. n -> 1 .. numPages(content)] : n \in 1 .. MaxOrder}

InitOrder ==
    /\ \E file \in {FileA, FileB} :
           xf \in [pc : {"order"}, bytes : {file.bytes},
                   pageOrder : PageOrders(file.bytes), result : {NoBytes}]
    /\ InitApp(FALSE, NoEntries, NoProfile)

NextOrder == ReorderPdfCall

SpecOrder == InitOrder /\ [][NextOrder]_vars

\* points the pointer is taken to during a shape gesture: from Corner they
\* span 1 x 5, 4 x 5 and 4 x 1
ShapePoints == DragPoints \union {[x |-> 14, y |-> 21]}

\* where the pointer clicks into a polygon, and where it only passes
ClickPoints == {Corner, [x |-> 11, y |-> 25]}

PreviewPoints == ShapePoints \ ClickPoints

\* the tool bar: b.pdf is open; tools are picked and left with Escape, and
\* in polygon or cloud mode the pointer clicks, moves and double-clicks on the overlay
InitTools == XfIdle /\ InitApp(FALSE, NoEntries, NoProfile)

Polygonal == IsMultiClick(state.shapeType)

\* no shape has been committed yet
Unshaped == state.shapeAnnotations = <<>>

NextTools ==
    \/ Unopened /\ LoadChange(FileB)
    \/ LoadRead
    \/ LoadParsed
    \/ LoadRendered
    \/ \E toolId \in {"shapes", "text"} : Opened /\ SelectTool(toolId)
    \/ Opened /\ Escape
    \/ \E shapeType \in {"polygon", "cloud"} : Opened /\ SelectShapeType(shapeType)
    \/ \E start \in ClickPoints :
           Opened /\ Polygonal /\ Unshaped /\ PointerDown(start, OverlayReady)
    \/ \E current \in PreviewPoints : Polygonal /\ PointerMove(current)
    \/ DoubleClick

SpecTools == InitTools /\ [][NextTools]_vars

\* freehand drawing: b.pdf is open and the draw tool picked; the pointer goes
\* down, moves and comes up, a second pointer also going down before the
\* first has come up
InitDraw == XfIdle /\ InitApp(FALSE, NoEntries, NoProfile)

NextDraw ==
    \/ Unopened /\ LoadChange(FileB)
    \/ LoadRead
    \/ LoadParsed
    \/ LoadRendered
    \/ Opened /\ SelectTool("draw")
    \/ Opened /\ PointerDown(Corner, OverlayReady)
    \/ \E current \in DragPoints : PointerMove(current)
    \/ PointerUp

SpecDraw == InitDraw /\ [][NextDraw]_vars

\* drag shapes: b.pdf is open and the shape tool picked; a rectangle, an
\* ellipse, a line or an arrow is dragged with one pointer, which goes down,
\* moves or not, and comes up
InitShapes == XfIdle /\ InitApp(FALSE, NoEntries, NoProfile)

NextShapes ==
    \/ Unopened /\ LoadChange(FileB)
    \/ LoadRead
    \/ LoadParsed
    \/ LoadRendered
    \/ Opened /\ SelectTool("shapes")
    \/ \E shapeType \in {"rect", "ellipse", "line", "arrow"} :
           Opened /\ closure.listeners = <<>> /\ SelectShapeType(shapeType)
    \/ Opened /\ closure.listeners = <<>> /\ PointerDown(Corner, OverlayReady)
    \/ \E current \in ShapePoints : PointerMove(current)
    \/ PointerUp

SpecShapes == InitShapes /\ [][NextShapes]_vars

\* a click near the lower right corner of the overlay
FarCorner == [x |-> 700, y |-> 900]

\* how far the pointer is from where it went down, also up and to the left
SizeDeltas == DragDeltas \union {[dx |-> -300, dy |-> -300]}

\* nothing has been placed on the page yet
Unplaced == \A collection \in Collections : state[collection] = <<>>

\* the annotation at `index` is as it was placed: no gesture has changed it
Fresh(collection, index) ==
    /\ index \in 1 .. Len(state[collection])
    /\ LET annotation == state[collection][index]
       IN  IF collection = "imageAnnotations"
           THEN \E i \in 1 .. Len(state.imageAssets) :
                    annotation = DroppedImage(annotation.id, state.imageAssets[i],
                                              annotation.pageNumber, Corner,
                                              OverlayReady)
           ELSE \E tool \in {"text", "comment"}, point \in {Corner, FarCorner} :
                    /\ CollectionOfTool(tool) = collection
                    /\ annotation = PlacedAnnotation(tool, annotation.id,
                                                     annotation.pageNumber, point,
                                                     OverlayReady)

\* moving and resizing any kind: b.pdf is open; a text box, a comment or a
\* tall image is placed while the overlay measures 720 x 960, and is moved
\* or resized once, the overlay measuring that or, the window having been
\* made smaller, 360 x 480
InitSize == XfIdle /\ InitApp(FALSE, NoEntries, NoProfile)

NextSize ==
    \/ Unopened /\ LoadChange(FileB)
    \/ LoadRead
    \/ LoadParsed
    \/ LoadRendered
    \/ Opened /\ state.imageAssets = <<>> /\ AddAsset(ImageT)
    \/ Opened /\ Unplaced /\ DropAsset(1, Corner, OverlayReady)
    \/ \E toolId \in {"text", "comment"} : Opened /\ Unplaced /\ SelectTool(toolId)
    \/ \E point \in {Corner, FarCorner} :
           Opened /\ Unplaced /\ OverlayClick(point, OverlayReady)
    \/ \E collection \in {"imageAnnotations", "textAnnotations",
                           "commentAnnotations"},
          kind \in {"move", "resize"}, bounds \in {OverlayReady, OverlayResized} :
           Fresh(collection, 1) /\ DragStart(collection, 1, kind, bounds)
    \/ \E delta \in SizeDeltas : DragMove(delta.dx, delta.dy)
    \/ DragEnd

SpecSize == InitSize /\ [][NextSize]_vars

\* rendering: a.pdf is open; Previous, Next and Rotate Right are pressed
\* without waiting for the renders, which end in any order
InitRender == XfIdle /\ InitApp(FALSE, NoEntries, NoProfile)

NextRender ==
    \/ Unopened /\ LoadChange(FileA)
    \/ LoadRead
    \/ LoadParsed
    \/ LoadRendered
    \/ \E direction \in {-1, 1} : Opened /\ NavigateRendering(direction)
    \/ Opened /\ RotateRendering(90)
    \/ \E index \in 1 .. MaxRenders : RenderEnds(index)

SpecRender == InitRender /\ [][NextRender]_vars

\* the history switch: "Remember recent documents" is on at the start; b.pdf
\* is opened, text and comments are placed on its pages, and the switch is turned off and on at any
\* time, also while a save is scheduled or the file is being hashed
InitHistory == XfIdle /\ InitApp(TRUE, NoEntries, NoProfile)

NextHistory ==
    \/ Unopened /\ LoadChange(FileB)
    \/ LoadRead
    \/ LoadParsed
    \/ LoadRendered
    \/ LoadHashed
    \/ LoadSaved
    \/ \E toolId \in {"text", "comment"} : Opened /\ SelectTool(toolId)
    \/ Opened /\ OverlayClick(Corner, OverlayReady)
    \/ \E direction \in {-1, 1} : Opened /\ Navigate(direction)
    \/ ToggleHistory
    \/ SessionSaveFires

SpecHistory == InitHistory /\ [][NextHistory]_vars

\* the Page Properties pane and a reorder: one document of three pages;
\* pages are hidden, deleted and restored before Apply Reorder is pressed
\* once and after the reorder has ended, and the page list is changed before
InitPane == XfIdle /\ InitApp(FALSE, NoEntries, NoProfile)

NextPane ==
    \/ Unopened /\ LoadChange(FileA)
    \/ LoadRead
    \/ LoadParsed
    \/ LoadRendered
    \/ \E index \in PageIds : Unordered /\ MoveUp(index)
    \/ \E direction \in {-1, 1} :
           Opened /\ reorderTask.pc = "idle" /\ Navigate(direction)
    \/ Opened /\ reorderTask.pc = "idle" /\ HideToggle
    \/ Opened /\ reorderTask.pc = "idle" /\ DeletePage
    \/ Opened /\ reorderTask.pc = "idle" /\ RestorePage
    \/ Unordered /\ ReorderClick
    \/ ReorderReordered
    \/ ReorderThrows
    \/ ReorderParsed
    \/ ReorderRendered

SpecPane == InitPane /\ [][NextPane]_vars

\* the names, the initials (none is "") and the styles of the signature pane
SignatureNames == {"Ann Lee", "Bo Ray"}

SignatureInitials == {"", "AL"}

VariantIds == {"script", "formal"}

\* signatures: b.pdf is opened and the signature tool chosen; styles are
\* picked for the names and initials typed, the placement is chosen, the
\* saved signature is cleared and the overlay is clicked, in any order
InitSign == XfIdle /\ InitApp(FALSE, NoEntries, NoProfile)

NextSign ==
    \/ Unopened /\ LoadChange(FileB)
    \/ LoadRead
    \/ LoadParsed
    \/ LoadRendered
    \/ Opened /\ SelectTool("signature")
    \/ \E name \in SignatureNames, initials \in SignatureInitials,
          fontId \in VariantIds :
           Opened /\ SelectSignatureStyle(name, initials, fontId)
    \/ \E mode \in {"full", "initials"} : Opened /\ SelectPlacement(mode)
    \/ Opened /\ ClearSignature
    \/ Opened /\ OverlayClick(Corner, OverlayReady)

SpecSign == InitSign /\ [][NextSign]_vars

\* opening a remembered document: one session of a.pdf with a text
\* annotation is stored; a.pdf and b.pdf are opened with the Open button,
\* pages are turned, a tool is chosen and the history switch is turned, and
\* nothing is placed, moved or deleted
InitOpen == XfIdle /\ InitApp(TRUE, StoredEntries, NoProfile)

NextOpen ==
    \/ \E file \in {FileA, FileB} : LoadChange(file)
    \/ LoadRead
    \/ LoadParsed
    \/ LoadRendered
    \/ LoadHashed
    \/ LoadSaved
    \/ \E direction \in {-1, 1} : Opened /\ Navigate(direction)
    \/ \E toolId \in {"select", "text"} : SelectTool(toolId)
    \/ ToggleHistory

SpecOpen == InitOpen /\ [][NextOpen]_vars

\* a span element that sets its text bold
BoldSpan(childNodes) ==
    Element("SPAN", [NoStyle EXCEPT !.fontWeight = "bold"], childNodes)

\* the editable regions an edit leaves: nothing, an empty text node, one
\* line, two lines parted by a BR, a bold word before a plain one, and two
\* DIVs, the second an empty line
Regions ==
    {<<>>,
     <<TextNode("")>>,
     <<TextNode("hi")>>,
     <<TextNode("a"), Br, TextNode("b")>>,
     <<BoldSpan(<<TextNode("a")>>), TextNode("b")>>,
     <<Element("DIV", NoStyle, <<TextNode("a")>>),
       Element("DIV", NoStyle, <<Br>>)>>}

\* the styles the controls give: bold on, bold off, a font size
Styles == {StyleOf(<<TRUE>>, <<>>), StyleOf(<<FALSE>>, <<>>), StyleOf(<<>>, <<20>>)}

\* the selections made in a region: none, its first node, all its nodes
Selections(contentEl) ==
    {<<>>} \cup (IF contentEl = <<>> THEN {}
                 ELSE {<<1, 1>>, <<1, Len(contentEl)>>})

\* text boxes: b.pdf is opened, the text tool chosen and one text box
\* placed on either page; the box is edited, and the style controls are
\* used with and without a selection, before and after the box is placed
InitText == XfIdle /\ InitApp(FALSE, NoEntries, NoProfile)

NextText ==
    \/ Unopened /\ LoadChange(FileB)
    \/ LoadRead
    \/ LoadParsed
    \/ LoadRendered
    \/ Opened /\ SelectTool("text")
    \/ \E direction \in {-1, 1} : Opened /\ Navigate(direction)
    \/ Opened /\ state.textAnnotations = <<>> /\ OverlayClick(Corner, OverlayReady)
    \/ \E contentEl \in Regions : Opened /\ TextInput(1, contentEl)
    \/ \E style \in Styles, contentEl \in Regions :
           \E selection \in Selections(contentEl) :
               Opened /\ TextStyle(style, contentEl, selection)

SpecText == InitText /\ [][NextText]_vars

\* an image that is neither PNG nor JPEG
ImageG == [name |-> "g.gif", bytes |-> "G", width |-> 200, height |-> 100]

\* the asset the asset input makes of a file, with the id `id`
AssetOf(id, file) ==
    [id |-> id, name |-> file.name, imageData |-> file.bytes,
     naturalWidth |-> file.width, naturalHeight |-> file.height,
     previewUrl |-> createObjectURL(file)]

\* the asset stores handed over: none, one or two of a PNG, a JPEG and a
\* GIF, with the ids 1 to 3 (an asset may be there twice)
AssetStores ==
    LET all == <<AssetOf(1, ImageP), AssetOf(2, ImageJ), AssetOf(3, ImageG)>>
    IN  {<<>>} \cup {<<all[i]>> : i \in 1 .. 3}
            \cup {<<all[i], all[j]>> : i \in 1 .. 3, j \in 1 .. 3}

\* the image annotation with the id `id` for the asset id `assetId` (4 is
\* the id of no asset), placed on `page` while the overlay measured `bounds`
PlacedImage(id, assetId, page, bounds) ==
    [DroppedImage(id, AssetOf(assetId, ImageP), page, Corner, OverlayReady)
        EXCEPT !.overlayWidth = bounds.width, !.overlayHeight = bounds.height]

ImageLists ==
    UNION {{[i \in 1 .. n |-> PlacedImage(i, f[i][1], f[i][2], f[i][3])] :
                f \in [1 .. n -> (1 .. 4) \X (1 .. 2)
                                     \X {OverlayReady, OverlayUnmeasured}]} :
           n \in 0 .. MaxImages}

\* applyImageAnnotations and renderAnnotations alone, on every asset store
\* and every list of at most MaxImages image annotations
InitImages ==
    /\ xf \in [pc : {"images"}, assets : AssetStores, annotations : ImageLists,
               result : {[error |-> "", drawn |-> <<>>]}, rendered : {<<>>}]
    /\ InitApp(FALSE, NoEntries, NoProfile)

NextImages == ApplyImagesCall \/ RenderImagesCall

SpecImages == InitImages /\ [][NextImages]_vars

\* no load and no restore is under way
IdleTasks == loadTask.pc = "idle" /\ resumeTask.pc = "idle"

\* the split pane: every text of at most MaxChars characters is typed in
\* the "Pages" field under either mode, a.pdf (three pages) is opened and
\* Split is clicked, before and after the document is there
SplitChars == {"1", "2", "4", "-", ",", " ", "x"}

SplitInputs == UNION {[1 .. n -> SplitChars] : n \in 0 .. MaxChars}

InitSplit ==
    /\ xf \in {SplitPane(input, mode) :
                  input \in SplitInputs, mode \in {"range", "pages"}}
    /\ InitApp(FALSE, NoEntries, NoProfile)

NextSplit ==
    \/ Unopened /\ LoadChange(FileA)
    \/ LoadRead
    \/ LoadParsed
    \/ LoadRendered
    \/ SplitClick

SpecSplit == InitSplit /\ [][NextSplit]_vars

\* the session history: recent documents are remembered and the history
\* that loadSessionHistory finds is empty, or holds SessionLimit - 1 or
\* SessionLimit sessions of other documents, or the session of a.pdf after
\* those of SessionLimit - 1 other documents; a.pdf and then b.pdf are
\* opened, a text box is placed, the save timer fires, the first session of
\* the list is opened and a file is picked, the first, second or last entry
\* of a full or nearly empty list is removed and the history is cleared
OtherPages ==
    <<"D1", "D2", "D3", "D4", "D5", "D6", "D7", "D8", "D9", "D10", "D11", "D12">>

OtherSessions ==
    [i \in 1 .. SessionLimit |->
        SessionEntry(OtherPages[i], hashBytes(Content(<<OtherPages[i]>>)),
                     InitialState)]

StoredHistories ==
    {SubSeq(OtherSessions, 1, n) : n \in {0, SessionLimit - 1, SessionLimit}}
        \cup {SubSeq(OtherSessions, 1, SessionLimit - 1) \o StoredEntries}

\* the list is nearly full, or nearly empty
FewRemoved ==
    \/ Len(state.sessionEntries) = SessionLimit
    \/ Len(state.sessionEntries) <= 2

InitRecent ==
    /\ XfIdle
    /\ \E entries \in StoredHistories : InitApp(TRUE, entries, NoProfile)

NextRecent ==
    \/ Unopened /\ LoadChange(FileA)
    \/ IdleTasks /\ state.currentFileName = FileA.name /\ LoadChange(FileB)
    \/ LoadRead
    \/ LoadParsed
    \/ LoadRendered
    \/ LoadHashed
    \/ LoadSaved
    \/ Opened /\ IdleTasks /\ SelectTool("text")
    \/ Opened /\ IdleTasks /\ state.textAnnotations = <<>>
           /\ OverlayClick(Corner, OverlayReady)
    \/ SessionSaveFires
    \/ Unrestored /\ closure.pendingSession = <<>> /\ OpenSession(1)
    \/ \E file \in {FileA, FileB} : Unrestored /\ IdleTasks /\ ResumeChange(file)
    \/ ResumeRead
    \/ ResumeHashed
    \/ ResumeParsed
    \/ ResumeRendered
    \/ \E index \in {1, 2, SessionLimit} : FewRemoved /\ RemoveSession(index)
    \/ ClearHistory

SpecRecent == InitRecent /\ [][NextRecent]_vars

\* polygons over two pages: b.pdf is open, its second page smaller than
\* its first, so that the overlay measures OverlayReady on page 1 and
\* OverlayResized on page 2; the pointer clicks at a place of its own on
\* each page, pages are turned and the overlay is double-clicked
PointOn(page) == [x |-> 10 * page, y |-> 20 * page]

OverlayOn(page) == IF page = 1 THEN OverlayReady ELSE OverlayResized

InitMulti == XfIdle /\ InitApp(FALSE, NoEntries, NoProfile)

NextMulti ==
    \/ Unopened /\ LoadChange(FileB)
    \/ LoadRead
    \/ LoadParsed
    \/ LoadRendered
    \/ Opened /\ SelectTool("shapes")
    \/ \E shapeType \in {"polygon", "cloud"} : Opened /\ SelectShapeType(shapeType)
    \/ \E direction \in {-1, 1} : Opened /\ Navigate(direction)
    \/ Opened /\ Polygonal
           /\ PointerDown(PointOn(state.currentPage), OverlayOn(state.currentPage))
    \/ DoubleClick

SpecMulti == InitMulti /\ [][NextMulti]_vars
(***************************************************************************)
(* C1: for ow > 0 and oh > 0 the transform returns x' = x*pw/ow,           *)
(* width' = width*pw/ow, height' = height*ph/oh and                        *)
(* y' = ph - (y + height)*ph/oh, so that the top edge y' + height' is      *)
(* ph - y*ph/oh.                                                           *)
(***************************************************************************)
C1_RectTransform ==
    (xf.pc = "rect" /\ xf.overlaySize.width > 0 /\ xf.overlaySize.height > 0) =>
        LET r  == xf.overlayRect
            pw == xf.pageSize.width
            ph == xf.pageSize.height
            ow == xf.overlaySize.width
            oh == xf.overlaySize.height
        IN  /\ QEq(xf.rect.x, QNorm(r.x * pw, ow))
            /\ QEq(xf.rect.width, QNorm(r.width * pw, ow))
            /\ QEq(xf.rect.height, QNorm(r.height * ph, oh))
            /\ QEq(xf.rect.y, QNorm(ph * oh - (r.y + r.height) * ph, oh))
            /\ QEq(QAdd(xf.rect.y, xf.rect.height),
                   QNorm(ph * oh - r.y * ph, oh))

C1_Witness ==
    /\ xf.pc = "rect"
    /\ xf.overlayRect.y > 0
    /\ xf.overlaySize.width > 0
    /\ xf.overlaySize.width # xf.pageSize.width

ExampleRect == [x |-> 60, y |-> 80, width |-> 120, height |-> 160]

IsExampleResult(r) ==
    QIs(r.x, 120) /\ QIs(r.y, 320) /\ QIs(r.width, 240) /\ QIs(r.height, 320)

(***************************************************************************)
(* C2 as stated: with overlay size 600 x 800 and page size 300 x 400 the   *)
(* rect {60, 80, 120, 160} maps to exactly {120, 320, 240, 320}.           *)
(***************************************************************************)
C2_ExampleAsStated ==
    (/\ xf.pc = "rect"
     /\ xf.overlayRect = ExampleRect
     /\ xf.overlaySize = [width |-> 600, height |-> 800]
     /\ xf.pageSize = [width |-> 300, height |-> 400])
        => IsExampleResult(xf.rect)

\* C2 amended: the example holds with the two sizes exchanged, page size
\* 600 x 800 and overlay size 300 x 400, as the repository's test calls it.
C2_ExampleAmended ==
    (/\ xf.pc = "rect"
     /\ xf.overlayRect = ExampleRect
     /\ xf.pageSize = [width |-> 600, height |-> 800]
     /\ xf.overlaySize = [width |-> 300, height |-> 400])
        => IsExampleResult(xf.rect)

C2_Witness ==
    /\ xf.pc = "rect"
    /\ xf.overlayRect = ExampleRect
    /\ xf.pageSize = [width |-> 600, height |-> 800]
    /\ xf.overlaySize = [width |-> 300, height |-> 400]

PositionsOf(order, page) == {j \in 1 .. Len(order) : order[j] = page}

CopyAt(annotation, position) == [annotation EXCEPT !.pageNumber = position]

\* `out` holds, for every annotation and every position of its page in the
\* order, exactly one copy that differs in pageNumber alone, and nothing else
IsRemapOf(out, annotations, order) ==
    /\ \A k \in 1 .. Len(out) :
           \E i \in 1 .. Len(annotations) :
               \E j \in PositionsOf(order, annotations[i].pageNumber) :
                   out[k] = CopyAt(annotations[i], j)
    /\ \A i \in 1 .. Len(annotations) :
           \A j \in PositionsOf(order, annotations[i].pageNumber) :
               Cardinality({k \in 1 .. Len(out) :
                                out[k] = CopyAt(annotations[i], j)}) = 1

\* an annotation of an excluded page has no copy, one of a page that is
\* shown has a copy
DropsExcludedOnly(out, annotations, st) ==
    \A i \in 1 .. Len(annotations) :
        (\E k \in 1 .. Len(out) : out[k].id = annotations[i].id)
            <=> (/\ annotations[i].pageNumber \in 1 .. st.pageCount
                 /\ ~isPageHidden(st, annotations[i].pageNumber)
                 /\ ~isPageDeleted(st, annotations[i].pageNumber))

(***************************************************************************)
(* C3: remapAnnotationsForExport emits, for each annotation, exactly one   *)
(* copy per position of the annotation's page in the export sequence, the  *)
(* copy being the original but for pageNumber, which is the 1-based        *)
(* position; an annotation of a hidden or deleted page yields no copy and  *)
(* none of a visible page is dropped.                                      *)
(***************************************************************************)
C3_RemapCopies ==
    \A stage \in Range(ExportStages) :
        LET order == buildExportPageOrder(state)
            annotations == exportSource(state, stage)
            out == remapAnnotationsForExport(annotations, order)
        IN  /\ IsRemapOf(out, annotations, order)
            /\ DropsExcludedOnly(out, annotations, state)

\* a text stage in flight that was given two copies of one annotation
\* while another annotation, of an excluded page, has none
C3_Witness ==
    /\ exportTask.pc = "text"
    /\ exportTask.exportPageOrder = buildExportPageOrder(state)
    /\ exportTask.annotations =
           remapAnnotationsForExport(state.textAnnotations,
                                     exportTask.exportPageOrder)
    /\ Len(state.textAnnotations) = 2
    /\ Len(exportTask.annotations) = 2
    /\ exportTask.annotations[1].id = exportTask.annotations[2].id
    /\ exportTask.annotations[1].pageNumber # exportTask.annotations[2].pageNumber

RECURSIVE SumOver(_, _)
SumOver(f, pages) ==
    IF pages = {} THEN 0
    ELSE LET p == CHOOSE q \in pages : TRUE
         IN  f[p] + SumOver(f, pages \ {p})

Shown(st) ==
    {p \in 1 .. st.pageCount : ~isPageHidden(st, p) /\ ~isPageDeleted(st, p)}

(***************************************************************************)
(* C4: buildExportPageOrder lists pages of 1..N in ascending order, omits  *)
(* every hidden or deleted page and holds each other page p exactly        *)
(* 1 + duplicateCount(p) times, in adjacent positions; its length is the   *)
(* sum of 1 + duplicateCount(p) over the visible pages.                    *)
(***************************************************************************)
C4_ExportPageOrder ==
    LET order == buildExportPageOrder(state)
        copies == [p \in PageIds |-> 1 + state.pageProperties.duplicates[p]]
    IN  /\ \A i \in 1 .. Len(order) : order[i] \in Shown(state)
        /\ \A i, j \in 1 .. Len(order) : i < j => order[i] <= order[j]
        /\ \A p \in Shown(state) :
               Cardinality(PositionsOf(order, p)) = copies[p]
        /\ Len(order) = SumOver(copies, Shown(state))

\* an export that runs on an order with a page left out, a page doubled
\* and a page after it
C4_Witness ==
    /\ exportTask.pc # "idle"
    /\ exportTask.exportPageOrder = buildExportPageOrder(state)
    /\ \E p, q \in Shown(state) :
           p < q /\ state.pageProperties.duplicates[p] > 0
    /\ state.pageProperties.hidden \cup state.pageProperties.deleted # {}

\* the stages a document went through, oldest first
StagesOf(content) == [i \in 1 .. Len(content.marks) |-> content.marks[i].stage]

(***************************************************************************)
(* C6: export runs its stages in the order page properties, highlights,    *)
(* images, text, signatures, draws, shapes.  The page properties stage is  *)
(* handed the loaded document; every later stage is handed the handler's   *)
(* accumulator, which went through the page properties stage first and     *)
(* then through earlier stages only, each once, in the fixed order, the    *)
(* last of them having returned it; and the list a later stage is handed   *)
(* is not empty, as was that of every stage the document went through.     *)
(***************************************************************************)
C6_StageOrder ==
    exportTask.pc # "idle" =>
        LET input == heap[exportTask.inputBytes]
            stages == StagesOf(input)
        IN  IF exportTask.pc = "pageProperties"
            THEN /\ stages = <<>>
                 /\ exportTask.inputBytes = state.currentBytes
                       \/ state.currentBytes = 0
            ELSE /\ exportTask.pc \in Range(ExportStages)
                 /\ Len(stages) >= 1
                 /\ stages[1] = "pageProperties"
                 /\ \A i, j \in 1 .. Len(stages) :
                        i < j => StageIndex(stages[i]) < StageIndex(stages[j])
                 /\ \A i \in 1 .. Len(stages) :
                        /\ StageIndex(stages[i]) < StageIndex(exportTask.pc)
                        /\ i > 1 => input.marks[i].n > 0
                 /\ exportTask.inputBytes = exportTask.exportBytes
                 /\ Len(exportTask.annotations) > 0
                 /\ input.pages =
                        [i \in 1 .. Len(exportTask.exportPageOrder) |->
                            heap[state.currentBytes].pages[
                                exportTask.exportPageOrder[i]]]

\* the signature stage in flight on a document that went through the page
\* properties and text stages, the highlight and image stages having been
\* left out
C6_Witness ==
    /\ exportTask.pc = "signatures"
    /\ StagesOf(heap[exportTask.inputBytes]) = <<"pageProperties", "text">>
    /\ Len(exportTask.exportPageOrder) = 3

(***************************************************************************)
(* C7: no step of an export, be it the return or the failure of a stage,   *)
(* and no other step changes a byte of a buffer that is still referred to  *)
(* after it: the loaded document's state.currentBytes and                  *)
(* state.originalBytes and the buffer a stage was handed keep their        *)
(* content.                                                                *)
(***************************************************************************)
C7_BytesNotMutated ==
    [][/\ \A b \in BufIds :
              (heap[b] # NoBytes /\ heap'[b] # NoBytes) => heap'[b] = heap[b]
       /\ (exportTask.pc # "idle" /\ state'.currentBytes = state.currentBytes
               /\ state.currentBytes # 0)
              => heap'[state.currentBytes] = heap[state.currentBytes]
       /\ (exportTask.pc # "idle" /\ state'.originalBytes = state.originalBytes
               /\ state.originalBytes # 0)
              => heap'[state.originalBytes] = heap[state.originalBytes]]_vars

\* an export whose text stage, of pdfService.js, has returned a document
\* while the loaded document is as it was read
C7_Witness ==
    /\ exportTask.pc = "signatures"
    /\ "text" \in Range(StagesOf(heap[exportTask.exportBytes]))
    /\ heap[state.currentBytes] = FileB.bytes
    /\ heap[state.originalBytes] = FileB.bytes

IsPermutation(order, n) ==
    Len(order) = n /\ \A p \in 1 .. n : \E i \in 1 .. n : order[i] = p

PositionIn(order, page) == CHOOSE i \in 1 .. Len(order) : order[i] = page

\* the step that ends Apply Reorder by putting the remapped values in place
ReorderCompletes == reorderTask.pc = "rendering" /\ reorderTask'.pc = "idle"

(***************************************************************************)
(* C5: when Apply Reorder completes with the page order pi, a permutation  *)
(* of 1..N, each of the eight collections holds the annotations it held    *)
(* when the button was pressed, as many and in the same sequence, each     *)
(* with pageNumber the position in pi of the page it was on and no other   *)
(* field changed, and the rotation, hidden, deleted and duplicate entry of *)
(* every page p is found under the position of p in pi.                    *)
(***************************************************************************)
C5_ReorderRemap ==
    [][ReorderCompletes =>
           LET pi == reorderTask.pageOrder
               old == reorderTask.current
               was == reorderTask.currentProperties
               now == state'.pageProperties
           IN  /\ IsPermutation(pi, state'.pageCount)
               /\ \A k \in Collections :
                      /\ Len(state'[k]) = Len(old[k])
                      /\ \A i \in 1 .. Len(old[k]) :
                             state'[k][i] =
                                 [old[k][i] EXCEPT !.pageNumber =
                                     PositionIn(pi, old[k][i].pageNumber)]
               /\ \A p \in 1 .. Len(pi) :
                      LET q == PositionIn(pi, p)
                      IN  /\ now.rotations[q] = was.rotations[p]
                          /\ now.duplicates[q] = was.duplicates[p]
                          /\ q \in now.hidden <=> p \in was.hidden
                          /\ q \in now.deleted <=> p \in was.deleted]_vars

\* Apply Reorder has completed with the order [3, 1, 2]: the third page of
\* the file is the first of the document, and an annotation and a rotation
\* are on page 1
C5_Witness ==
    /\ reorderTask.pc = "idle"
    /\ ui.status = "Reorder applied."
    /\ state.pdfDoc = <<<<"A3", "A1", "A2">>>>
    /\ Len(state.textAnnotations) = 1
    /\ state.textAnnotations[1].pageNumber = 1
    /\ state.pageProperties.rotations[1] = 90

\* the step of the resumeInput handler that compares the hash of the picked
\* file with the one of the pending session, on a file whose hash differs
ResumeRefuses ==
    /\ resumeTask.pc = "hashing"
    /\ resumeTask'.pc # "hashing"
    /\ hashBytes(heap[resumeTask.bytes]) # closure.pendingSession[1].fileHash

(***************************************************************************)
(* C8: when the file picked for a session has a hash that differs from the *)
(* session's fileHash, the handler ends with the mismatch error and leaves *)
(* the current document and its bytes, every annotation collection, the    *)
(* image assets, the page properties and the current file name and hash as *)
(* they were; no annotation of the session is merged.                      *)
(***************************************************************************)
C8_MismatchRejected ==
    [][ResumeRefuses =>
           /\ ui'.status = MismatchStatus
           /\ ui'.isError
           /\ resumeTask'.pc = "idle"
           /\ state'.pdfDoc = state.pdfDoc
           /\ state'.pageCount = state.pageCount
           /\ state'.currentBytes = state.currentBytes
           /\ state'.originalBytes = state.originalBytes
           /\ \A b \in {state.currentBytes, state.originalBytes} \cap BufIds :
                  heap'[b] = heap[b]
           /\ \A k \in Collections : state'[k] = state[k]
           /\ state'.imageAssets = state.imageAssets
           /\ state'.pageProperties = state.pageProperties
           /\ state'.currentFileName = state.currentFileName
           /\ state'.currentFileHash = state.currentFileHash]_vars

\* b.pdf is open with a text annotation of its own, b.pdf was picked for
\* the session of a.pdf and the restore has been refused
C8_Witness ==
    /\ ui.status = MismatchStatus
    /\ resumeTask.pc = "idle"
    /\ state.pdfDoc = <<FileB.bytes.pages>>
    /\ state.currentFileName = FileB.name
    /\ Len(state.textAnnotations) = 1
    /\ state.textAnnotations[1] # StoredText

\* the annotations the store holds: those of the eight collections and the
\* shape draft
Stored == UNION {IdsOf(state[k]) : k \in Collections} \cup IdsOf(state.shapeDraft)

(***************************************************************************)
(* C9 as stated: once a different document has been loaded nothing of the  *)
(* first one remains, whatever gesture was in progress on it: every        *)
(* annotation and shape draft of the store was made on the document that   *)
(* is open, no image asset and no page property is left over from the      *)
(* document before, and a selected text or stamp is one of the store.      *)
(***************************************************************************)
C9_NoResidue ==
    /\ \A id \in Stored : origin[id] = state.pdfDoc
    /\ state.selectedTextId # 0 => state.selectedTextId \in IdsOf(state.textAnnotations)
    /\ state.selectedStampId # 0 => state.selectedStampId \in IdsOf(state.stampAnnotations)
    /\ loadTask.pc = "rendering" =>
           /\ state.imageAssets = <<>>
           /\ state.pageProperties = EmptyPageProperties

(***************************************************************************)
(* C10 as stated: in every state where no pointer gesture is in progress,  *)
(* every highlight that a gesture of the highlight tool created has        *)
(* width >= 2 and height >= 2.                                             *)
(***************************************************************************)
C10_NoFlatHighlight ==
    closure.listeners = <<>> =>
        \A i \in 1 .. Len(state.highlightAnnotations) :
            /\ state.highlightAnnotations[i].width >= 2
            /\ state.highlightAnnotations[i].height >= 2

(***************************************************************************)
(* C11 as stated: a conversion with an overlay size that is zero never     *)
(* yields a rectangle or a point; the rect transform and the point         *)
(* transform signal an error instead.                                      *)
(***************************************************************************)
C11_SignalsMissingOverlaySize ==
    (xf.pc # "args" /\ (xf.overlaySize.width = 0 \/ xf.overlaySize.height = 0))
        => xf.pc = "error"

\* the annotation a drag works on, as the store holds it
DraggedIn(st, drag) ==
    LET found == SelectSeq(st[drag.collection], LAMBDA item : item.id = drag.id)
    IN  found[1]

\* the step that ends a move or resize which changed the annotation
DragCompletes ==
    /\ closure.drag # <<>>
    /\ closure'.drag = <<>>
    /\ closure.drag[1].attached
    /\ LET drag == closure.drag[1]
           annotation == DraggedIn(state, drag)
       IN  IF drag.kind = "move"
           THEN annotation.x # drag.originA \/ annotation.y # drag.originB
           ELSE annotation.width # drag.originA \/ annotation.height # drag.originB

(***************************************************************************)
(* C12 as stated: when a move or resize of an annotation completes, the    *)
(* annotation's overlayWidth and overlayHeight are the size the overlay    *)
(* measured during that gesture.                                           *)
(***************************************************************************)
C12_SnapshotFresh ==
    [][DragCompletes =>
           LET drag == closure.drag[1]
               annotation == DraggedIn(state', drag)
           IN  /\ annotation.overlayWidth = drag.bounds.width
               /\ annotation.overlayHeight = drag.bounds.height]_vars

\* the contents of the two buffers the state holds
DocumentBytes(st, h) ==
    [b \in {st.currentBytes, st.originalBytes} \cap BufIds |-> h[b]]

\* a step of the Export handler
ExportSteps == exportTask' # exportTask

\* the step on which an awaited stage fails: the handler ends without
\* having started the download
ExportFails ==
    /\ exportTask.pc # "idle"
    /\ exportTask'.pc = "idle"
    /\ ui'.status # "Export started."

(***************************************************************************)
(* C13: when a stage of the export fails, the export ends with an error    *)
(* status and without a download, no later stage is awaited and the        *)
(* handler does not start again; and no step of the Export handler, from   *)
(* the press of the button to its end, changes an annotation collection,   *)
(* the image assets, the page properties or the bytes of the document.     *)
(***************************************************************************)
C13_ExportFailure ==
    [][/\ ExportFails =>
             /\ ui'.isError
             /\ ui'.status = "Export failed"
             /\ exportTask' = IdleExport
       /\ ExportSteps =>
             /\ \A k \in Collections : state'[k] = state[k]
             /\ state'.imageAssets = state.imageAssets
             /\ state'.pageProperties = state.pageProperties
             /\ state'.currentBytes = state.currentBytes
             /\ state'.originalBytes = state.originalBytes
             /\ DocumentBytes(state', heap') = DocumentBytes(state, heap)]_vars

\* the signature stage has failed after the text stage had run: the export
\* is over and the placed text and signature are in the store
C13_Witness ==
    /\ ui.status = "Export failed"
    /\ ui.isError
    /\ exportTask.pc = "idle"
    /\ Len(state.textAnnotations) = 1
    /\ Len(state.signatureAnnotations) = 1

\* the annotation collections and the page properties of a state
Annotated(st) ==
    [collections |-> [k \in Collections |-> st[k]],
     pageProperties |-> st.pageProperties]

\* a step of the Apply Reorder handler after the press of the button
ReorderSteps == reorderTask.pc # "idle" /\ reorderTask' # reorderTask

(***************************************************************************)
(* C14 as stated: between the press of Apply Reorder and its completion    *)
(* the handler never leaves annotation collections or page properties for  *)
(* other events to see that are neither the complete old values nor the    *)
(* complete remapped values: each of its steps leaves them as they are or  *)
(* puts the remapped values in place.                                      *)
(***************************************************************************)
C14_AtomicSwap ==
    [][ReorderSteps =>
           \/ Annotated(state') = Annotated(state)
           \/ Annotated(state') =
                  [collections |-> reorderTask.remapped,
                   pageProperties |-> reorderTask.pageProperties]]_vars

\* what a refused input has to leave alone
Kept(st, h) ==
    [document |-> DocumentBytes(st, h),
     collections |-> [k \in Collections |-> st[k]],
     pageProperties |-> st.pageProperties,
     currentFileName |-> st.currentFileName,
     currentFileHash |-> st.currentFileHash,
     sessionEntries |-> st.sessionEntries]

\* a step of the load handler on a file of the wrong type or on bytes that
\* are not a PDF
RefusedLoadSteps ==
    /\ loadTask.pc # "idle"
    /\ loadTask' # loadTask
    /\ ~isPdfFile(loadTask.file) \/ ~isPdfBytes(loadTask.file.bytes)

(***************************************************************************)
(* C15 as stated: a load given a file of the wrong type or bytes that are  *)
(* not a PDF leaves the current document, every annotation collection, the *)
(* page properties, the current file name and hash and the session-history *)
(* entries exactly as before.                                              *)
(***************************************************************************)
C15_RefusedUnchanged ==
    [][RefusedLoadSteps => Kept(state', heap') = Kept(state, heap)]_vars

\* the visible page at the position next to that of `page` in `direction`,
\* the first and the last position having no position beyond them
Adjacent(visible, page, direction) ==
    LET index == CHOOSE i \in 1 .. Len(visible) : visible[i] = page
        beside == index + direction
    IN  IF beside < 1 THEN visible[1]
        ELSE IF beside > Len(visible) THEN visible[Len(visible)]
        ELSE visible[beside]

\* the nearest visible page from `page` on, the last visible page if none
NearestFollowing(visible, page) ==
    LET following == {p \in Range(visible) : p >= page}
    IN  IF following # {}
        THEN CHOOSE p \in following : \A q \in following : p <= q
        ELSE visible[Len(visible)]

\* where Previous and Next would go from the state
NeighborsRight ==
    \A direction \in {-1, 1} :
        LET visible == getVisiblePages(state)
            nextPage == getNeighborVisiblePage(state, state.currentPage, direction)
        IN  /\ Len(visible) > 0 => nextPage \in Range(visible)
            /\ state.currentPage \in Range(visible) =>
                   nextPage = Adjacent(visible, state.currentPage, direction)

\* a step of no load, reorder or resume that changes the displayed page of
\* the document and nothing of its page properties: Previous or Next
NavigateSteps ==
    /\ state.pdfDoc # <<>>
    /\ UNCHANGED <<loadTask, reorderTask, resumeTask>>
    /\ state'.pdfDoc = state.pdfDoc
    /\ state'.pageProperties = state.pageProperties
    /\ state'.currentPage # state.currentPage

\* a step that hides or deletes the displayed page
HidesDisplayed ==
    /\ state.pdfDoc # <<>>
    /\ UNCHANGED <<loadTask, reorderTask, resumeTask>>
    /\ state'.pdfDoc = state.pdfDoc
    /\ \/ state.currentPage \in
              state'.pageProperties.hidden \ state.pageProperties.hidden
       \/ state.currentPage \in
              state'.pageProperties.deleted \ state.pageProperties.deleted

(***************************************************************************)
(* C16: Previous and Next go to the adjacent entry of the list of visible  *)
(* pages, never to a hidden or deleted page, and stay where they are at    *)
(* either end of the list; and after a hide or a delete of the displayed   *)
(* page, if a page is visible, the displayed page is the nearest visible   *)
(* page that follows, or the last visible page if none follows.            *)
(***************************************************************************)
C16_Navigation ==
    /\ []NeighborsRight
    /\ [][NavigateSteps =>
              /\ state'.currentPage \in Range(getVisiblePages(state))
              /\ \E direction \in {-1, 1} :
                     state'.currentPage =
                         getNeighborVisiblePage(state, state.currentPage,
                                                direction)]_vars
    /\ [][(HidesDisplayed /\ Len(getVisiblePages(state')) > 0) =>
              state'.currentPage =
                  NearestFollowing(getVisiblePages(state'), state.currentPage)]_vars

\* page 1 was hidden and page 3 deleted while displayed: page 2 is displayed
\* and is both ends of the list
C16_Witness ==
    /\ state.pdfDoc # <<>>
    /\ state.pageProperties.hidden = {1}
    /\ state.pageProperties.deleted = {3}
    /\ state.currentPage = 2
    /\ getVisiblePages(state) = <<2>>

\* the states one of Previous, Next, the Hide toggle and Restore Page leads
\* to from a state
UndoSteps(st) ==
    {navigate(st, -1), navigate(st, 1)}
        \cup (IF isPageDeleted(st, st.currentPage)
              THEN {restorePage(st)} ELSE {hideToggle(st, ~isPageHidden(st, st.currentPage))})

\* the states sequences of those actions lead to
RECURSIVE UndoReach(_, _)
UndoReach(seen, frontier) ==
    IF frontier = {} THEN seen
    ELSE LET found == UNION {UndoSteps(st) : st \in frontier} \ seen
         IN  UndoReach(seen \cup found, found)

(***************************************************************************)
(* C17 as stated: in every reachable state with a document loaded, for     *)
(* every page that is hidden or deleted, some sequence of Previous, Next,  *)
(* the Hide toggle and Restore Page leads to a state in which that page is *)
(* visible.                                                                *)
(***************************************************************************)
C17_Undoable ==
    state.pdfDoc # <<>> =>
        \A page \in state.pageProperties.hidden \cup state.pageProperties.deleted :
            \E st \in UndoReach({state}, {state}) :
                page \in Range(getVisiblePages(st))

\* a step of no load, reorder or resume that changes the flag: the
\* Comments button
ToggleSteps ==
    /\ state'.commentsVisible # state.commentsVisible
    /\ UNCHANGED <<loadTask, reorderTask, resumeTask>>

\* a step of the export handler that hands a stage its annotations
StageStarts ==
    /\ exportTask' # exportTask
    /\ exportTask'.pc \in Range(ExportStages)

(***************************************************************************)
(* C18: the Comments button changes the commentsVisible flag and nothing   *)
(* else, so the comments and every other collection stay; pressed twice it *)
(* gives the display there was; and every stage of an export is handed     *)
(* the annotations it would be handed with the flag the other way.         *)
(***************************************************************************)
C18_CommentToggle ==
    /\ [][ToggleSteps =>
              /\ state' = [state EXCEPT !.commentsVisible = ~@]
              /\ UNCHANGED <<heap, closure, exportTask, ui>>]_vars
    /\ [](renderCommentAnnotations(commentToggle(commentToggle(state)))
              = renderCommentAnnotations(state))
    /\ [][StageStarts =>
              exportTask'.annotations =
                  exportAnnotations(commentToggle(state),
                                    exportTask'.exportPageOrder,
                                    exportTask'.pc)]_vars

\* the text stage of an export runs on a comment while the comments are
\* hidden
C18_Witness ==
    /\ ~state.commentsVisible
    /\ Len(state.commentAnnotations) > 0
    /\ renderCommentAnnotations(state) = <<>>
    /\ exportTask.pc = "text"
    /\ \E i \in 1 .. Len(exportTask.annotations) :
           exportTask.annotations[i].id = state.commentAnnotations[1].id

\* the state restored from what serializeSessionAnnotations makes of it
Restored(st) == applySessionAnnotations(st, serializeSessionAnnotations(st))

\* the assets an image annotation of the state refers to
ReferencedAssets(st) ==
    {asset \in Range(st.imageAssets) :
        \E i \in 1 .. Len(st.imageAnnotations) :
            st.imageAnnotations[i].assetId = asset.id}

\* the step of a resume on which the session's annotations are put in place
RestoreSteps == resumeTask.pc = "parsing" /\ resumeTask'.pc = "rendering"

MutationSteps ==
    /\ state.sessionHistoryEnabled
    /\ state.currentBytes # 0
    /\ loadTask.pc = "idle" /\ reorderTask.pc = "idle" /\ resumeTask.pc = "idle"
    /\ UNCHANGED <<loadTask, reorderTask, resumeTask>>
    /\ \E k \in Collections : state'[k] # state[k]

(***************************************************************************)
(* C20 as stated, in the part a save depends on: on a loaded document with *)
(* the session history on, whatever loads, restores and reorders led to    *)
(* it, a committed annotation mutation leaves the timer of the session     *)
(* save armed, so that a save which contains the mutation follows.         *)
(***************************************************************************)
C20_MutationArmsSave ==
    [][MutationSteps => closure'.sessionSaveTimer]_vars

(***************************************************************************)
(* C21: reorderPdf(bytes, pageOrder) returns a document of as many pages   *)
(* as pageOrder has entries whose i-th page is the page pageOrder[i] of    *)
(* the source; with a permutation the page count is that of the source.    *)
(***************************************************************************)
C21_ReorderPdf ==
    xf.pc = "reordered" =>
        /\ numPages(xf.result) = Len(xf.pageOrder)
        /\ \A i \in 1 .. Len(xf.pageOrder) :
               xf.result.pages[i] = xf.bytes.pages[xf.pageOrder[i]]
        /\ IsPermutation(xf.pageOrder, numPages(xf.bytes))
               => numPages(xf.result) = numPages(xf.bytes)

\* the order [3, 1, 2] of the test, applied to a.pdf
C21_Witness ==
    /\ xf.pc = "reordered"
    /\ xf.bytes = FileA.bytes
    /\ xf.pageOrder = <<3, 1, 2>>
    /\ xf.result.pages = <<"A3", "A1", "A2">>

(***************************************************************************)
(* C22: exactly one tool is active at any time; Escape makes Select the    *)
(* active tool; and a step that changes the tool, Escape included, leaves  *)
(* the shape store as it was and no polygon or cloud draft behind, so the  *)
(* only step that adds a polygon or cloud to the store is one taken with   *)
(* the shape tool active and the very draft at hand.                       *)
(***************************************************************************)
ToolChanged == state'.activeTool # state.activeTool

DraftAt(st) == st.shapeDraft # <<>> /\ IsMultiClick(st.shapeDraft[1].shapeType)

MultiClickShapes(st) ==
    {st.shapeAnnotations[i] : i \in {j \in 1 .. Len(st.shapeAnnotations) :
                                        IsMultiClick(st.shapeAnnotations[j].shapeType)}}

ToolSteps ==
    /\ ToolChanged =>
           /\ state'.shapeAnnotations = state.shapeAnnotations
           /\ (state'.activeTool # "shapes" => state'.shapeDraft = <<>>)
           /\ (DraftAt(state') => state'.shapeDraft = state.shapeDraft)
    /\ MultiClickShapes(state') # MultiClickShapes(state) =>
           /\ state.activeTool = "shapes"
           /\ DraftAt(state)
           /\ MultiClickShapes(state') \ MultiClickShapes(state)
                  = {[state.shapeDraft[1] EXCEPT !.previewPoint = <<>>]}

C22_OneTool ==
    /\ [](/\ Cardinality(activeButtons(state)) = 1
          /\ activeButtons(state) = {state.activeTool}
          /\ setActiveTool(state, "select").activeTool = "select"
          /\ ~DraftAt(setActiveTool(state, "select")))
    /\ [][ToolSteps]_vars

\* Escape has been pressed in polygon mode after one polygon was committed:
\* Select is active, no draft is left and the store holds that polygon alone
C22_Witness ==
    /\ state.activeTool = "select"
    /\ state.shapeType = "polygon"
    /\ state.shapeDraft = <<>>
    /\ Len(state.shapeAnnotations) = 1
    /\ state.shapeAnnotations[1].shapeType = "polygon"
    /\ Len(state.shapeAnnotations[1].geometry.points) = 3
    /\ closure.listeners = <<>>

(***************************************************************************)
(* C23: in the draw tool a pointer-down adds one draw annotation holding   *)
(* the first point alone, every pointer-move of the gesture appends        *)
(* exactly one point to it, and pointer-up leaves the stored draw          *)
(* annotations as they are.                                                *)
(***************************************************************************)
\* the step is a pointer-down in the draw tool
DrawBegins == Len(state'.drawAnnotations) > Len(state.drawAnnotations)

\* the step is a pointer-move of a draw gesture
DrawMoves ==
    /\ state.activeTool = "draw"
    /\ closure.activeDraw # <<>>
    /\ closure'.listeners = closure.listeners
    /\ closure'.activeDraw # closure.activeDraw

\* the step is the pointer-up
DrawEnds == closure.listeners # <<>> /\ closure'.listeners = <<>>

DrawSteps ==
    /\ DrawBegins =>
           /\ Len(state'.drawAnnotations) = Len(state.drawAnnotations) + 1
           /\ SubSeq(state'.drawAnnotations, 1, Len(state.drawAnnotations))
                  = state.drawAnnotations
           /\ Len(state'.drawAnnotations[Len(state'.drawAnnotations)].points) = 1
    /\ DrawMoves =>
           /\ closure'.activeDraw[1].points
                  = Append(closure.activeDraw[1].points,
                           closure'.activeDraw[1].points[
                               Len(closure'.activeDraw[1].points)])
           /\ \A i \in 1 .. Len(state.drawAnnotations) :
                  state.drawAnnotations[i].id = closure.activeDraw[1].id =>
                      state'.drawAnnotations[i].points
                          = closure'.activeDraw[1].points
    /\ DrawEnds => state'.drawAnnotations = state.drawAnnotations

C23_DrawGesture == [][DrawSteps]_vars

(***************************************************************************)
(* C24: the pointer-up that ends the drag of a rectangle, an ellipse, a    *)
(* line or an arrow adds the shape to the store only if the pointer was    *)
(* dragged over more than 2 px on both axes; otherwise the draft is        *)
(* dropped and the shape store is what it was.                             *)
(***************************************************************************)
\* the extent the pointer was dragged over, as the shape records it
DraggedExtent(shape) ==
    IF IsLine(shape.shapeType)
    THEN [width |-> Abs(shape.geometry.points[2].x - shape.geometry.points[1].x),
          height |-> Abs(shape.geometry.points[2].y - shape.geometry.points[1].y)]
    ELSE [width |-> shape.geometry.width, height |-> shape.geometry.height]

ExceedsBoth(shape) ==
    DraggedExtent(shape).width > 2 /\ DraggedExtent(shape).height > 2

\* the step is the pointer-up of a shape drag
ShapeEnds ==
    /\ closure.listeners # <<>>
    /\ closure'.listeners = <<>>
    /\ closure.activeShape # <<>>

C24_ShapeThreshold ==
    [][ShapeEnds =>
          /\ state'.shapeDraft = <<>>
          /\ IF ExceedsBoth(closure.activeShape[1])
             THEN state'.shapeAnnotations
                      \in {state.shapeAnnotations,
                           Append(state.shapeAnnotations, closure.activeShape[1])}
             ELSE state'.shapeAnnotations = state.shapeAnnotations]_vars

(***************************************************************************)
(* C25: a double-click in polygon or cloud mode commits the draft if and   *)
(* only if it holds at least 3 points; the committed shape has the points  *)
(* of the draft, which are the points clicked since the draft began in the *)
(* order clicked, and no preview point, and the draft is cleared; with     *)
(* fewer than 3 points the double-click changes nothing.                   *)
(***************************************************************************)
DraftPoints(st) == st.shapeDraft[1].geometry.points

\* the step is a click into a polygon or cloud draft
DraftClicked ==
    /\ state.activeTool = "shapes"
    /\ DraftAt(state')
    /\ state'.shapeDraft # state.shapeDraft
    /\ \/ ~DraftAt(state)
       \/ DraftPoints(state') # DraftPoints(state)

\* the draft holds the points clicked since it began, in the order clicked
ClicksKept ==
    DraftClicked =>
        \E point \in ClickPoints :
            DraftPoints(state') =
                IF DraftAt(state) THEN Append(DraftPoints(state), point)
                ELSE <<point>>

\* what a double-click would do in this state
DoubleClickRight ==
    (state.activeTool = "shapes" /\ DraftAt(state)) =>
        LET after == finalizeDraft(state)
            last == after.shapeAnnotations[Len(after.shapeAnnotations)]
        IN  IF Len(DraftPoints(state)) >= 3
            THEN /\ Len(after.shapeAnnotations) = Len(state.shapeAnnotations) + 1
                 /\ last.geometry.points = DraftPoints(state)
                 /\ last.previewPoint = <<>>
                 /\ \A i \in 1 .. Len(last.geometry.points) :
                        last.geometry.points[i] \in ClickPoints
                 /\ last.id = state.shapeDraft[1].id
                 /\ after.shapeDraft = <<>>
            ELSE after = state

C25_DoubleClick == []DoubleClickRight /\ [][ClicksKept]_vars

\* a polygon of three clicked points has been committed with the shape tool
\* and no draft is left
C25_Witness ==
    /\ state.shapeDraft = <<>>
    /\ Len(state.shapeAnnotations) = 1
    /\ state.shapeAnnotations[1].shapeType = "polygon"
    /\ state.shapeAnnotations[1].geometry.points
           = <<Corner, [x |-> 11, y |-> 25], Corner>>
    /\ state.shapeAnnotations[1].previewPoint = <<>>
    /\ state.activeTool = "shapes"

(***************************************************************************)
(* C26: every pointer-move of a move gesture leaves the annotation, of     *)
(* whatever kind and size, with 0 <= x <= overlay width - width and        *)
(* 0 <= y <= overlay height - height, the overlay being as measured for    *)
(* the gesture, and with the width and height it had.                      *)
(***************************************************************************)
\* the step is a pointer-move of a move gesture on an annotation in the store
MoveSteps ==
    /\ closure.drag # <<>>
    /\ closure.drag[1].kind = "move"
    /\ closure.drag[1].attached
    /\ closure' = closure
    /\ DraggedIn(state', closure.drag[1]) # DraggedIn(state, closure.drag[1])

InsideOverlay(annotation, bounds) ==
    /\ 0 <= annotation.x
    /\ annotation.x <= bounds.width - annotation.width
    /\ 0 <= annotation.y
    /\ annotation.y <= bounds.height - annotation.height

C26_MoveInside ==
    [][MoveSteps =>
          LET drag == closure.drag[1]
              before == DraggedIn(state, drag)
              after == DraggedIn(state', drag)
          IN  /\ InsideOverlay(after, drag.bounds)
              /\ after.width = before.width
              /\ after.height = before.height]_vars

(***************************************************************************)
(* C27: every pointer-move of a resize gesture leaves the annotation with  *)
(* a width and a height of at least the minimum of its kind, and with      *)
(* x + width and y + height inside the overlay as measured for the         *)
(* gesture, wherever the annotation lay and whatever its size was.         *)
(***************************************************************************)
\* the step is a pointer-move of a resize gesture on an annotation in the
\* store
ResizeSteps ==
    /\ closure.drag # <<>>
    /\ closure.drag[1].kind = "resize"
    /\ closure.drag[1].attached
    /\ closure' = closure
    /\ DraggedIn(state', closure.drag[1]) # DraggedIn(state, closure.drag[1])

C27_ResizeBounds ==
    [][ResizeSteps =>
          LET drag == closure.drag[1]
              after == DraggedIn(state', drag)
          IN  /\ after.width >= MinSize(drag.collection).width
              /\ after.height >= MinSize(drag.collection).height
              /\ after.x + after.width <= drag.bounds.width
              /\ after.y + after.height <= drag.bounds.height]_vars

\* no render is pending on an open document
RendersDone == state.pdfDoc # <<>> /\ loadTask.pc = "idle" /\ ui.renders = <<>>

\* the canvas and the overlay show the page the state shows
PageRendered ==
    RendersDone =>
        ui.canvas.page = state.currentPage /\ ui.overlayPage = state.currentPage

\* the canvas shows the page turned as the state has it turned
RotationRendered ==
    RendersDone =>
        ui.canvas.rotation = state.pageProperties.rotations[state.currentPage]

(***************************************************************************)
(* C28: once no render is pending, the canvas shows the page the state     *)
(* shows, turned as the state has it turned, and the overlay shows the     *)
(* annotations of that page, in whatever order the renders were begun and  *)
(* have ended.                                                             *)
(***************************************************************************)
C28_LatestRendered == PageRendered /\ RotationRendered

\* the ids of the annotations in the collections of a state
StoredIds(st) == UNION {IdsOf(st[k]) : k \in Collections}

\* the ids of the annotations the Apply Reorder handler holds to put in place
HeldIds(task) == UNION {IdsOf(task.remapped[k]) : k \in Collections}

(***************************************************************************)
(* C29: no step of the Apply Reorder handler loses an annotation: every    *)
(* annotation in the collections before the step, those committed while    *)
(* the handler was awaiting included, is in the collections after it or    *)
(* among the remapped values the handler still has to put in place.        *)
(***************************************************************************)
C29_NoLostAnnotation ==
    [][ReorderSteps =>
           StoredIds(state) \subseteq StoredIds(state') \union HeldIds(reorderTask')]_vars

(***************************************************************************)
(* C30: while "Remember recent documents" is off, no step creates or       *)
(* updates a session entry, a save scheduled before the switch was turned  *)
(* off included: every entry there is after a step taken with the switch   *)
(* off was there before it.                                                *)
(***************************************************************************)
C30_OffNoEntry ==
    [][~state.sessionHistoryEnabled =>
           Range(state'.sessionEntries) \subseteq Range(state.sessionEntries)]_vars
(***************************************************************************)
(* C31: every stored session entry has a non-empty fileHash, and every     *)
(* annotation it holds that was made in this run was made on the document  *)
(* with that hash: no save writes the annotations of one document under    *)
(* the hash of another document or under an empty hash.                    *)
(***************************************************************************)
\* the annotation `id` was made on a document whose hash is not `fileHash`
MadeElsewhere(id, fileHash) ==
    /\ origin[id] # <<>>
    /\ (fileHash = <<>> \/ origin[id] # <<fileHash[1]>>)

EntryOfOneDocument(entry) ==
    /\ entry.fileHash # <<>>
    /\ \A j \in 1 .. Len(entry.annotations) :
           ~MadeElsewhere(entry.annotations[j].item.id, entry.fileHash)

C31_EntriesOfOneDocument ==
    \A i \in 1 .. Len(state.sessionEntries) :
        EntryOfOneDocument(state.sessionEntries[i])

(***************************************************************************)
(* C32: in every reachable state no page is both in the hidden set and in  *)
(* the deleted set.                                                        *)
(***************************************************************************)
C32_HiddenOrDeleted ==
    state.pageProperties.hidden \cap state.pageProperties.deleted = {}

\* the signature annotation with the id `id` in the store, none as <<>>
SignatureAt(st, id) ==
    SelectSeq(st.signatureAnnotations, LAMBDA annotation : annotation.id = id)

\* no signature that stays in the store changes its text or its fontId
SignaturesKept ==
    \A id \in AnnIds :
        SignatureAt(state, id) # <<>> /\ SignatureAt(state', id) # <<>> =>
            /\ SignatureAt(state', id)[1].text = SignatureAt(state, id)[1].text
            /\ SignatureAt(state', id)[1].fontId = SignatureAt(state, id)[1].fontId

\* a signature that comes into the store is placed with a profile that has a
\* name and a font, and has the text and the fontId of that profile
SignaturePlaced ==
    \A id \in AnnIds :
        SignatureAt(state, id) = <<>> /\ SignatureAt(state', id) # <<>> =>
            /\ SignatureReady(state)
            /\ SignatureAt(state', id)[1].text = signatureText(state)
            /\ SignatureAt(state', id)[1].text # ""
            /\ SignatureAt(state', id)[1].fontId = state.signatureProfile[1].fontId

(***************************************************************************)
(* C33: a placed signature's text and fontId are fixed at placement time:  *)
(* no step, a change or the clearing of the signature profile included,    *)
(* changes the text or the fontId of a signature in the store, and a       *)
(* signature is placed only while a profile with a name and a font is      *)
(* there, with the text and the fontId of that profile.                    *)
(***************************************************************************)
C33_SignatureFixed == [][SignaturesKept /\ SignaturePlaced]_vars

\* two signatures placed under different profiles are in the store while no
\* profile is there
C33_Witness ==
    /\ state.signatureProfile = <<>>
    /\ Len(state.signatureAnnotations) = 2
    /\ state.signatureAnnotations[1].text # state.signatureAnnotations[2].text
    /\ state.signatureAnnotations[1].fontId # state.signatureAnnotations[2].fontId

\* the entries of the session history kept for the file hash `fileHash`
EntriesOf(st, fileHash) ==
    SelectSeq(st.sessionEntries, LAMBDA entry : entry.fileHash = fileHash)

(***************************************************************************)
(* C34: while the user edits nothing, the entry of a.pdf, which was stored *)
(* with a text annotation, is in the session history with the annotations  *)
(* it was stored with, whichever documents are opened.                     *)
(***************************************************************************)
C34_SavedKept ==
    /\ EntriesOf(state, hashBytes(FileA.bytes)) # <<>>
    /\ \A i \in 1 .. Len(EntriesOf(state, hashBytes(FileA.bytes))) :
           EntriesOf(state, hashBytes(FileA.bytes))[i].annotations
               = StoredEntries[1].annotations

\* an empty editable region is serialized, in the base style of the text
\* box, as one span with an empty text and that style
EmptySerialized(annotation) ==
    LET base == getAnnotationBaseStyle(annotation, state)
        spans == serializeTextSpans(<<>>, base)
    IN  /\ Len(spans) = 1
        /\ spans[1] = Span("", base)
        /\ DOMAIN spans[1] = {"text"} \cup DOMAIN DefaultTextStyle

(***************************************************************************)
(* C35: every text annotation in the store has at least one span, and an   *)
(* empty editable region is serialized as exactly one span with an empty   *)
(* text and the full base style.                                           *)
(***************************************************************************)
C35_AtLeastOneSpan ==
    \A i \in 1 .. Len(state.textAnnotations) :
        /\ Len(state.textAnnotations[i].spans) >= 1
        /\ EmptySerialized(state.textAnnotations[i])

\* a text box that was made bold and 20 px and then emptied has one empty
\* span in that style
C35_Witness ==
    /\ Len(state.textAnnotations) = 1
    /\ state.textAnnotations[1].text = ""
    /\ state.textAnnotations[1].spans
           = <<Span("", [DefaultTextStyle EXCEPT !.bold = TRUE, !.fontSize = 20])>>

\* the texts of the spans, one after the other
RECURSIVE SpanTexts(_)
SpanTexts(spans) ==
    IF spans = <<>> THEN "" ELSE Head(spans).text \o SpanTexts(Tail(spans))

(***************************************************************************)
(* C36: the texts of the spans of a text annotation, line breaks being     *)
(* newline markers, spell the annotation's text field.                     *)
(***************************************************************************)
C36_SpansSpellText ==
    \A i \in 1 .. Len(state.textAnnotations) :
        SpanTexts(state.textAnnotations[i].spans) = state.textAnnotations[i].text

\* the asset of the image annotation is in the store handed over
HasAsset(annotation) ==
    \E i \in 1 .. Len(xf.assets) : xf.assets[i].id = annotation.assetId

\* the image annotations whose asset is there, and the ids of those whose
\* asset is missing
WithAsset == SelectSeq(xf.annotations, HasAsset)

MissingIds ==
    {xf.annotations[i].id :
         i \in {n \in 1 .. Len(xf.annotations) : ~HasAsset(xf.annotations[n])}}

\* the image annotation can be drawn: its asset is a PNG or a JPEG and it
\* has its overlay size
Drawable(annotation) ==
    /\ detectImageType(assetMapGet(xf.assets, annotation.assetId)[1].imageData) # ""
    /\ annotation.overlayWidth # 0
    /\ annotation.overlayHeight # 0

(***************************************************************************)
(* C37: an image annotation whose asset id is not in the asset store is    *)
(* skipped in the export and on the overlay without an error: the export   *)
(* returns what it returns for the other annotations alone, which is all   *)
(* of them drawn in order when each can be drawn, and the overlay shows    *)
(* every other image annotation of the page.                               *)
(***************************************************************************)
C37_MissingAssetSkipped ==
    /\ xf.pc \in {"exported", "rendered"} =>
           /\ xf.result = applyImageAnnotations(xf.assets, WithAsset)
           /\ Range(xf.result.drawn) \cap MissingIds = {}
           /\ (\A i \in 1 .. Len(WithAsset) : Drawable(WithAsset[i])) =>
                  /\ xf.result.error = ""
                  /\ xf.result.drawn
                         = [i \in 1 .. Len(WithAsset) |-> WithAsset[i].id]
    /\ xf.pc = "rendered" =>
           /\ Range(xf.rendered) \cap MissingIds = {}
           /\ \A i \in 1 .. Len(WithAsset) :
                  WithAsset[i].pageNumber = 1 => WithAsset[i].id \in Range(xf.rendered)

\* an image whose asset is missing comes before an image of page 1 whose
\* asset is there: the second is exported and shown, the first is not
C37_Witness ==
    /\ xf.pc = "rendered"
    /\ Len(xf.annotations) = 2
    /\ ~HasAsset(xf.annotations[1])
    /\ HasAsset(xf.annotations[2])
    /\ xf.annotations[1].pageNumber = 1
    /\ xf.result = [error |-> "", drawn |-> <<2>>]
    /\ xf.rendered = <<2>>

\* a page written as digits and nothing else, white space around them
\* apart, that names a page of the document
IsPage(chars, pageCount) ==
    LET rest == trim(chars)
    IN  /\ rest # <<>>
        /\ \A i \in 1 .. Len(rest) : rest[i] \in Digits
        /\ digitsPrefix(rest, 0) \in 1 .. pageCount

PageOf(chars) == digitsPrefix(trim(chars), 0)

\* a part is well formed when it is one page, or two pages around one "-"
\* the first not above the second
WellFormedPart(part, pageCount) ==
    LET pieces == split(part, "-")
    IN  \/ Len(pieces) = 1 /\ IsPage(part, pageCount)
        \/ /\ Len(pieces) = 2
           /\ IsPage(pieces[1], pageCount)
           /\ IsPage(pieces[2], pageCount)
           /\ PageOf(pieces[1]) <= PageOf(pieces[2])

\* no part at all, or a part that is not well formed
Malformed(input, pageCount) ==
    LET parts == filterBoolean(mapTrim(split(input, ",")))
    IN  \/ parts = <<>>
        \/ \E i \in 1 .. Len(parts) : ~WellFormedPart(parts[i], pageCount)

SplitParsed == xf.pc = "parsed"

\* an error with no groups, or groups that are not empty and hold pages of
\* the document only
ErrorOrGroups(parsed, pageCount) ==
    \/ parsed.error # NoError /\ parsed.groups = <<>>
    \/ /\ parsed.error = NoError
       /\ parsed.groups # <<>>
       /\ \A g \in 1 .. Len(parsed.groups) :
              /\ parsed.groups[g] # <<>>
              /\ \A i \in 1 .. Len(parsed.groups[g]) :
                     parsed.groups[g][i] \in 1 .. pageCount

\* on an error nothing is split
ErrorSplitsNothing ==
    xf.parsed.error # NoError => xf.results = <<>> /\ xf.isError

C38_ErrorOrGroups ==
    SplitParsed =>
        ErrorOrGroups(xf.parsed, state.pageCount) /\ ErrorSplitsNothing

(***************************************************************************)
(* C38: parsePageGroups returns an error with no groups or a non-empty     *)
(* list of non-empty groups of pages in 1..pageCount; a malformed text     *)
(* (a part that is not a number, a range whose start exceeds its end, a    *)
(* page outside 1..pageCount, no part) always yields the error, and on an  *)
(* error nothing is split.                                                 *)
(***************************************************************************)
C38_MalformedRejected ==
    SplitParsed =>
        /\ ErrorOrGroups(xf.parsed, state.pageCount)
        /\ ErrorSplitsNothing
        /\ Malformed(xf.input, state.pageCount) => xf.parsed.error # NoError
\* no two entries of the same file hash
OnePerHash(entries) ==
    \A i, j \in 1 .. Len(entries) :
        entries[i].fileHash = entries[j].fileHash => i = j

\* where the entry of the hash is in the list, 0 when it is not there
IndexOfHash(entries, fileHash) ==
    IF \E k \in 1 .. Len(entries) : entries[k].fileHash = fileHash
    THEN CHOOSE k \in 1 .. Len(entries) : entries[k].fileHash = fileHash
    ELSE 0

\* the entries of `new` are entries of `old`, which has one entry per hash,
\* in the order they have there
InOrderOf(new, old) ==
    LET at == [i \in 1 .. Len(new) |-> IndexOfHash(old, new[i].fileHash)]
    IN  /\ \A i \in 1 .. Len(new) : at[i] # 0 /\ old[at[i]] = new[i]
        /\ \A i \in 1 .. Len(new) - 1 : at[i] < at[i + 1]

\* the entry written last is the first one, and the others follow in the
\* order they had: the list is ordered by the time of the last update
LatestFirst ==
    LET old == state.sessionEntries
        new == state'.sessionEntries
    IN  \/ InOrderOf(new, old)
        \/ /\ new # <<>>
           /\ new[1].fileHash = state'.currentFileHash
           /\ InOrderOf(Tail(new), old)

WithoutIndex(entries, index) ==
    SubSeq(entries, 1, index - 1) \o SubSeq(entries, index + 1, Len(entries))

RemoveExact ==
    \A index \in 1 .. Len(state.sessionEntries) :
        Len(state'.sessionEntries) < Len(state.sessionEntries)
                /\ RemoveSession(index) =>
            state'.sessionEntries = WithoutIndex(state.sessionEntries, index)

ClearEmpties == ClearHistory => state'.sessionEntries = <<>>

HistoryBounded ==
    /\ Len(state.sessionEntries) <= SessionLimit
    /\ OnePerHash(state.sessionEntries)

(***************************************************************************)
(* C39: after any sequence of opens, edits, restores, removals and clears  *)
(* the session history holds at most 12 entries and at most one entry per  *)
(* file hash, the most recently updated first; Clear History leaves it     *)
(* empty and Remove deletes exactly the chosen entry.                      *)
(***************************************************************************)
C39_HistoryOrdered ==
    /\ []HistoryBounded
    /\ [][LatestFirst /\ RemoveExact /\ ClearEmpties]_vars

\* the list is full after b.pdf and a.pdf went to its front: the oldest
\* entries were cut off
C39_Witness ==
    /\ Len(state.sessionEntries) = SessionLimit
    /\ state.sessionEntries[1].fileHash = hashBytes(FileB.bytes)
    /\ state.sessionEntries[2].fileHash = hashBytes(FileA.bytes)
\* the page on which the pointer clicked at `point`
PageClicked(point) == CHOOSE page \in 1 .. numPages(FileB.bytes) : PointOn(page) = point

\* every point of the shape was clicked on the page the shape records,
\* under the overlay size it records
OnItsPage(shape) ==
    /\ \A i \in 1 .. Len(shape.geometry.points) :
           PageClicked(shape.geometry.points[i]) = shape.pageNumber
    /\ [width |-> shape.overlayWidth, height |-> shape.overlayHeight]
           = OverlayOn(shape.pageNumber)

(***************************************************************************)
(* C40: every point of a committed polygon or cloud was clicked on the     *)
(* page recorded as the shape's pageNumber, under the overlay size the     *)
(* shape records: turning the page while a draft is open yields no shape   *)
(* that mixes points clicked on different pages.                           *)
(***************************************************************************)
C40_PointsOfOnePage ==
    \A i \in 1 .. Len(state.shapeAnnotations) :
        IsMultiClick(state.shapeAnnotations[i].shapeType)
            => OnItsPage(state.shapeAnnotations[i])

=============================================================================
